---- MODULE Spec2Model ----
(***************************************************************************)
(* Model of the directory scanning and caching core of                     *)
(* YoutubeTrailerScraper: FileSystemScanner.scan_directories with its      *)
(* diskcache store, MovieScanner / TVShowScanner.find_missing_trailers     *)
(* behind the CacheIt decorator, and the cache clearing operations.        *)
(*                                                                         *)
(* File and directory names are sequences of one-character strings, so     *)
(* that lower-casing, suffix extraction, prefix and substring tests are    *)
(* computed the way the Python code computes them.                         *)
(***************************************************************************)
EXTENDS Integers, Sequences, FiniteSets, TLC

(***************************************************************************)
(* Bounds of the model.                                                    *)
(***************************************************************************)
MaxCalls == 2

MaxCallsAll == 1

MaxFsChanges == 1

MaxTicks == 2

MaxScanners == 2

MaxSample == 1

MaxChildren == 4

MaxEntries == 2

MaxUrls == 4

\* Longest list of roots a cache key is made of.
MaxRoots == 2

\* Largest max_retries of a TMDBSearchEngine.
MaxRetries == 4

(***************************************************************************)
(* Program constants.                                                      *)
(***************************************************************************)
DEFAULT_CACHE_TTL == 86400

CACHEIT_MAX_DURATION == 86400

\* SCAN_SAMPLE_SIZE of the sample mode scenario.
SCAN_SAMPLE_SIZE == 3

\* The number of movie directories of the sample mode scenario.
TEN_MOVIES == 10

MAX_TRAILERS_PER_MEDIA == 3

\* cached_result is None: no entry under the key.
None == [data |-> <<>>, time |-> -1]

\* max_results=None.  The code only tests max_results for truthiness, which
\* None and 0 fail alike.
NoLimit == 0

(***************************************************************************)
(* Strings.                                                                *)
(***************************************************************************)
LowerChar(c) ==
    CASE c = "A" -> "a" [] c = "B" -> "b" [] c = "C" -> "c" [] c = "D" -> "d"
      [] c = "E" -> "e" [] c = "F" -> "f" [] c = "G" -> "g" [] c = "H" -> "h"
      [] c = "I" -> "i" [] c = "J" -> "j" [] c = "K" -> "k" [] c = "L" -> "l"
      [] c = "M" -> "m" [] c = "N" -> "n" [] c = "O" -> "o" [] c = "P" -> "p"
      [] c = "Q" -> "q" [] c = "R" -> "r" [] c = "S" -> "s" [] c = "T" -> "t"
      [] c = "U" -> "u" [] c = "V" -> "v" [] c = "W" -> "w" [] c = "X" -> "x"
      [] c = "Y" -> "y" [] c = "Z" -> "z"
      [] OTHER -> c

Lower(s) == [i \in 1..Len(s) |-> LowerChar(s[i])]

Contains(s, sub) ==
    \E i \in 0..(Len(s) - Len(sub)) : SubSeq(s, i + 1, i + Len(sub)) = sub

StartsWith(s, prefix) ==
    /\ Len(prefix) <= Len(s)
    /\ SubSeq(s, 1, Len(prefix)) = prefix

\* pathlib.PurePath.suffix: the text from the last dot on, unless that dot
\* is the first or the last character of the name.
Suffix(name) ==
    LET dots == {i \in 1..Len(name) : name[i] = "."}
    IN  IF dots = {} THEN <<>>
        ELSE LET i == CHOOSE d \in dots : \A e \in dots : e <= d
             IN  IF 1 < i /\ i < Len(name)
                 THEN SubSeq(name, i, Len(name))
                 ELSE <<>>

VIDEO_EXTENSIONS ==
    { <<".", "m", "p", "4">>, <<".", "m", "k", "v">>, <<".", "a", "v", "i">>,
      <<".", "m", "4", "v">>, <<".", "m", "o", "v">> }

TRAILER == <<"t", "r", "a", "i", "l", "e", "r">>

TRAILERS_SUBDIR == <<"t", "r", "a", "i", "l", "e", "r", "s">>

SEASON_PATTERN == <<"s", "e", "a", "s", "o", "n">>

(***************************************************************************)
(* The file system.  A node is a file or a directory; a directory holds a  *)
(* set of nodes and may be unreadable (listing it raises PermissionError / *)
(* OSError).                                                               *)
(***************************************************************************)
File(name) == [name |-> name, isDir |-> FALSE, readable |-> TRUE, entries |-> {}]

Dir(name, entries) ==
    [name |-> name, isDir |-> TRUE, readable |-> TRUE, entries |-> entries]

MovieFile == File(<<"m", ".", "m", "p", "4">>)

EpisodeFile == File(<<"e", ".", "M", "K", "V">>)

TrailerFile == File(<<"x", "-", "T", "r", "a", "i", "l", "e", "r", ".", "m", "p", "4">>)

SeasonDir == Dir(<<"S", "e", "a", "s", "o", "n", " ", "1">>, {EpisodeFile})

TrailersDir == Dir(TRAILERS_SUBDIR, {TrailerFile})

\* What a child of a library root can hold.
MovieNoTrailer == {MovieFile}

MovieWithTrailer == {MovieFile, TrailerFile}

ShowNoTrailer == {SeasonDir}

ShowWithTrailer == {SeasonDir, TrailersDir}

Contents == {MovieNoTrailer, MovieWithTrailer, ShowNoTrailer, ShowWithTrailer}

\* A child of a library root: a directory holding `entries`, or a plain file.
ChildDir(i, entries) == Dir(<<"d", ToString(i)>>, entries)

ChildFile(i) == File(<<"f", ToString(i)>>)

Roots == {<<"a">>, <<"b">>}

RootKinds == {"dir", "missing", "file", "denied"}

\* Path.exists()
exists(tree, path) == tree[path].kind # "missing"

\* Path.is_dir()
is_dir(tree, path) == tree[path].kind \in {"dir", "denied"}

\* Path.iterdir() yields the children; otherwise it raises PermissionError
\* or another OSError before the first child.
listable(tree, path) == tree[path].kind = "dir"

\* Path / name
ChildPath(base, item) == <<base, item.name>>

(***************************************************************************)
(* FileSystemScanner: predicates.                                          *)
(***************************************************************************)
validate_path(tree, path) ==
    IF ~exists(tree, path) THEN FALSE
    ELSE IF ~is_dir(tree, path) THEN FALSE
    ELSE TRUE

\* Variant: the suffix is compared as written, without lower-casing it.
has_video_files_CaseSensitive(video_extensions, directory) ==
    IF ~directory.readable THEN FALSE
    ELSE \E f \in directory.entries :
            /\ ~f.isDir
            /\ Suffix(f.name) \in video_extensions

has_video_files(video_extensions, directory) ==
    IF ~directory.readable THEN FALSE
    ELSE \E f \in directory.entries :
            /\ ~f.isDir
            /\ Lower(Suffix(f.name)) \in video_extensions

has_subdirectories_with_videos(video_extensions, directory) ==
    IF ~directory.readable THEN FALSE
    ELSE \E subdir \in directory.entries :
            /\ subdir.isDir
            /\ has_video_files(video_extensions, subdir)

(***************************************************************************)
(* MovieScanner: predicates.                                               *)
(***************************************************************************)
Movie_has_video_files(directory) ==
    IF ~directory.readable THEN FALSE
    ELSE \E f \in directory.entries :
            /\ ~f.isDir
            /\ Lower(Suffix(f.name)) \in VIDEO_EXTENSIONS

\* Variant: the name is searched as written, without lower-casing it.
Movie_has_trailer_CaseSensitive(movie_dir) ==
    IF ~movie_dir.readable THEN FALSE
    ELSE \E file_path \in movie_dir.entries :
            /\ ~file_path.isDir
            /\ Contains(file_path.name, TRAILER)

Movie_has_trailer(movie_dir) ==
    IF ~movie_dir.readable THEN FALSE
    ELSE \E file_path \in movie_dir.entries :
            /\ ~file_path.isDir
            /\ Contains(Lower(file_path.name), TRAILER)

(***************************************************************************)
(* TVShowScanner: predicates.                                              *)
(***************************************************************************)
TV_has_video_files(directory) ==
    IF ~directory.readable THEN FALSE
    ELSE \E f \in directory.entries :
            /\ ~f.isDir
            /\ Lower(Suffix(f.name)) \in VIDEO_EXTENSIONS

\* Variant: without a qualifying season directory, any subdirectory holding
\* a video qualifies the directory.
is_tvshow_directory_Fallback(season_pattern, directory) ==
    IF ~directory.readable THEN FALSE
    ELSE \E subdir \in directory.entries :
            /\ subdir.isDir
            /\ TV_has_video_files(subdir)

is_tvshow_directory(season_pattern, directory) ==
    IF ~directory.readable THEN FALSE
    ELSE \E subdir \in directory.entries :
            /\ subdir.isDir
            /\ StartsWith(Lower(subdir.name), season_pattern)
            /\ TV_has_video_files(subdir)

TV_has_trailer(trailer_subdir, tvshow_dir) ==
    LET found == {n \in tvshow_dir.entries : n.name = trailer_subdir}
    IN  IF found = {} \/ \A n \in found : ~n.isDir THEN FALSE
        ELSE \E trailer_dir \in found :
                /\ trailer_dir.isDir
                /\ trailer_dir.readable
                /\ \E file_path \in trailer_dir.entries :
                      /\ ~file_path.isDir
                      /\ Contains(Lower(file_path.name), TRAILER)

(***************************************************************************)
(* Cache keys of FileSystemScanner.                                        *)
(***************************************************************************)
\* Code points of the characters that occur in root paths.
Ord(c) ==
    CASE c = "/" -> 47 [] c = "a" -> 97 [] c = "b" -> 98 [] c = "|" -> 124
      [] OTHER -> 0

RECURSIVE StrLess(_, _)
\* Python's order on str: lexicographic by code point.
StrLess(s, t) ==
    IF t = <<>> THEN FALSE
    ELSE IF s = <<>> THEN TRUE
    ELSE IF Ord(Head(s)) # Ord(Head(t)) THEN Ord(Head(s)) < Ord(Head(t))
    ELSE StrLess(Tail(s), Tail(t))

RECURSIVE Insert(_, _)
Insert(x, sorted_seq) ==
    IF sorted_seq = <<>> THEN <<x>>
    ELSE IF StrLess(x, Head(sorted_seq)) THEN <<x>> \o sorted_seq
    ELSE <<Head(sorted_seq)>> \o Insert(x, Tail(sorted_seq))

RECURSIVE sorted(_)
\* sorted(...) on a list of str
sorted(strs) ==
    IF strs = <<>> THEN <<>> ELSE Insert(Head(strs), sorted(Tail(strs)))

RECURSIVE join(_, _)
\* sep.join(strs)
join(sep, strs) ==
    IF strs = <<>> THEN <<>>
    ELSE IF Len(strs) = 1 THEN Head(strs)
    ELSE Head(strs) \o sep \o join(sep, Tail(strs))

_create_cache_key(paths, filter_name) ==
    LET paths_str == join(<<"|">>, sorted(paths))
    IN  filter_name \o <<":", ":">> \o paths_str

(***************************************************************************)
(* FileSystemScanner.scan_directories: the traversal done on a cache miss. *)
(* The accumulator carries the result list and, for the claims about what  *)
(* the traversal touches, the roots validated, the roots listed and the    *)
(* children the predicate was applied to.                                  *)
(***************************************************************************)
Truthy(n) == n # NoLimit

EmptyScan == [dirs |-> <<>>, validated |-> <<>>, listed |-> <<>>, probed |-> <<>>]

FilterFuncs == {"has_video_files", "has_subdirectories_with_videos"}

\* filter_func(item) for the predicates of the package: the two the scanner
\* itself offers and the classifiers of MovieScanner and TVShowScanner.
ApplyFilter(filter_func, video_extensions, item) ==
    CASE filter_func = "has_video_files" ->
            has_video_files(video_extensions, item)
      [] filter_func = "MovieScanner._has_video_files" ->
            Movie_has_video_files(item)
      [] filter_func = "TVShowScanner._is_tvshow_directory" ->
            is_tvshow_directory(SEASON_PATTERN, item)
      [] OTHER ->
            has_subdirectories_with_videos(video_extensions, item)

RECURSIVE ScanChildren(_, _, _, _, _, _, _)
\* Variant: the limit is only tested after the children of the root, the
\* inner loop has no break.
ScanChildren_NoBreak(base_path, children, i, filter_func, video_extensions, max_results, acc) ==
    IF i > Len(children) THEN acc
    ELSE LET item == children[i] IN
         IF ~item.isDir
         THEN ScanChildren(base_path, children, i + 1, filter_func,
                           video_extensions, max_results, acc)
         ELSE LET probed == [acc EXCEPT !.probed = Append(@, ChildPath(base_path, item))]
                  added == [probed EXCEPT !.dirs = IF Truthy(max_results)
                                                      /\ Len(@) >= max_results
                                                   THEN @
                                                   ELSE Append(@, ChildPath(base_path, item))]
              IN  IF ApplyFilter(filter_func, video_extensions, item)
                  THEN ScanChildren(base_path, children, i + 1, filter_func,
                                    video_extensions, max_results, added)
                  ELSE ScanChildren(base_path, children, i + 1, filter_func,
                                    video_extensions, max_results, probed)

ScanChildren(base_path, children, i, filter_func, video_extensions, max_results, acc) ==
    IF i > Len(children) THEN acc
    ELSE LET item == children[i] IN
         IF ~item.isDir
         THEN ScanChildren(base_path, children, i + 1, filter_func,
                           video_extensions, max_results, acc)
         ELSE LET probed == [acc EXCEPT !.probed = Append(@, ChildPath(base_path, item))]
                  added == [probed EXCEPT !.dirs = Append(@, ChildPath(base_path, item))]
              IN  IF ApplyFilter(filter_func, video_extensions, item)
                  THEN IF Truthy(max_results) /\ Len(added.dirs) >= max_results
                       THEN added
                       ELSE ScanChildren(base_path, children, i + 1, filter_func,
                                         video_extensions, max_results, added)
                  ELSE ScanChildren(base_path, children, i + 1, filter_func,
                                    video_extensions, max_results, probed)

RECURSIVE ScanPaths(_, _, _, _, _, _, _)
\* Variant: an invalid root ends the scan instead of being skipped.
ScanPaths_StopAtInvalid(tree, paths, j, filter_func, video_extensions, max_results, acc) ==
    IF j > Len(paths) THEN acc
    ELSE LET base_path == paths[j]
             seen == [acc EXCEPT !.validated = Append(@, base_path)]
         IN  IF ~validate_path(tree, base_path)
             THEN seen
             ELSE LET opened == [seen EXCEPT !.listed = Append(@, base_path)]
                      \* iterdir() on a root that cannot be listed raises
                      \* PermissionError / OSError, caught at lines 238-241
                      after == IF ~listable(tree, base_path) THEN opened
                               ELSE ScanChildren(base_path, tree[base_path].children, 1,
                                                 filter_func, video_extensions,
                                                 max_results, opened)
                  IN  IF Truthy(max_results) /\ Len(after.dirs) >= max_results
                      THEN after
                      ELSE ScanPaths(tree, paths, j + 1, filter_func,
                                     video_extensions, max_results, after)

ScanPaths(tree, paths, j, filter_func, video_extensions, max_results, acc) ==
    IF j > Len(paths) THEN acc
    ELSE LET base_path == paths[j]
             seen == [acc EXCEPT !.validated = Append(@, base_path)]
         IN  IF ~validate_path(tree, base_path)
             THEN ScanPaths(tree, paths, j + 1, filter_func, video_extensions,
                            max_results, seen)
             ELSE LET opened == [seen EXCEPT !.listed = Append(@, base_path)]
                      \* iterdir() on a root that cannot be listed raises
                      \* PermissionError / OSError, caught at lines 238-241
                      after == IF ~listable(tree, base_path) THEN opened
                               ELSE ScanChildren(base_path, tree[base_path].children, 1,
                                                 filter_func, video_extensions,
                                                 max_results, opened)
                  IN  IF Truthy(max_results) /\ Len(after.dirs) >= max_results
                      THEN after
                      ELSE ScanPaths(tree, paths, j + 1, filter_func,
                                     video_extensions, max_results, after)

(***************************************************************************)
(* MovieScanner.find_missing_trailers: the body of the decorated method.   *)
(* The accumulator carries missing_trailers, scanned_count and the roots   *)
(* listed.                                                                 *)
(***************************************************************************)
EmptyFind == [missing |-> <<>>, scanned |-> 0, listed |-> <<>>]

\* Variant: the limit is tested with < instead of <=.
SampleReached_OffByOne(sample_size, scanned_count) ==
    0 < sample_size /\ sample_size < scanned_count

SampleReached(sample_size, scanned_count) ==
    0 < sample_size /\ sample_size <= scanned_count

RECURSIVE MovieChildren(_, _, _, _, _)
\* Variant: the sample size bounds the directories found to miss a trailer
\* instead of the movie directories scanned.
MovieChildren_CountsMissing(base_path, children, i, sample_size, acc) ==
    IF i > Len(children) THEN acc
    ELSE LET item == children[i] IN
         IF SampleReached(sample_size, Len(acc.missing)) THEN acc
         ELSE IF ~item.isDir
         THEN MovieChildren(base_path, children, i + 1, sample_size, acc)
         ELSE IF ~Movie_has_video_files(item)
         THEN MovieChildren(base_path, children, i + 1, sample_size, acc)
         ELSE LET counted == [acc EXCEPT !.scanned = @ + 1]
                  added == [counted EXCEPT
                              !.missing = Append(@, ChildPath(base_path, item))]
              IN  IF ~Movie_has_trailer(item)
                  THEN MovieChildren(base_path, children, i + 1, sample_size, added)
                  ELSE MovieChildren(base_path, children, i + 1, sample_size, counted)

MovieChildren(base_path, children, i, sample_size, acc) ==
    IF i > Len(children) THEN acc
    ELSE LET item == children[i] IN
         IF SampleReached(sample_size, acc.scanned) THEN acc
         ELSE IF ~item.isDir
         THEN MovieChildren(base_path, children, i + 1, sample_size, acc)
         ELSE IF ~Movie_has_video_files(item)
         THEN MovieChildren(base_path, children, i + 1, sample_size, acc)
         ELSE LET counted == [acc EXCEPT !.scanned = @ + 1]
                  added == [counted EXCEPT
                              !.missing = Append(@, ChildPath(base_path, item))]
              IN  IF ~Movie_has_trailer(item)
                  THEN MovieChildren(base_path, children, i + 1, sample_size, added)
                  ELSE MovieChildren(base_path, children, i + 1, sample_size, counted)

RECURSIVE MoviePaths(_, _, _, _, _)
MoviePaths(tree, paths, j, sample_size, acc) ==
    IF j > Len(paths) THEN acc
    ELSE LET base_path == paths[j] IN
         IF ~exists(tree, base_path)
         THEN MoviePaths(tree, paths, j + 1, sample_size, acc)
         ELSE IF ~is_dir(tree, base_path)
         THEN MoviePaths(tree, paths, j + 1, sample_size, acc)
         ELSE LET opened == [acc EXCEPT !.listed = Append(@, base_path)]
                  after == IF ~listable(tree, base_path) THEN opened
                           ELSE MovieChildren(base_path, tree[base_path].children, 1,
                                              sample_size, opened)
              IN  IF SampleReached(sample_size, after.scanned) THEN after
                  ELSE MoviePaths(tree, paths, j + 1, sample_size, after)

(***************************************************************************)
(* TVShowScanner.find_missing_trailers: the body of the decorated method.  *)
(***************************************************************************)
RECURSIVE TVChildren(_, _, _, _, _, _, _)
\* Variant: a show is counted as scanned only when it misses its trailer.
TVChildren_CountsMissing(base_path, children, i, sample_size, season_pattern, trailer_subdir, acc) ==
    IF i > Len(children) THEN acc
    ELSE LET item == children[i] IN
         IF SampleReached(sample_size, acc.scanned) THEN acc
         ELSE IF ~item.isDir
         THEN TVChildren(base_path, children, i + 1, sample_size,
                         season_pattern, trailer_subdir, acc)
         ELSE IF ~is_tvshow_directory(season_pattern, item)
         THEN TVChildren(base_path, children, i + 1, sample_size,
                         season_pattern, trailer_subdir, acc)
         ELSE IF ~TV_has_trailer(trailer_subdir, item)
         THEN TVChildren(base_path, children, i + 1, sample_size,
                         season_pattern, trailer_subdir,
                         [acc EXCEPT !.scanned = @ + 1,
                                     !.missing = Append(@, ChildPath(base_path, item))])
         ELSE TVChildren(base_path, children, i + 1, sample_size,
                         season_pattern, trailer_subdir, acc)

TVChildren(base_path, children, i, sample_size, season_pattern, trailer_subdir, acc) ==
    IF i > Len(children) THEN acc
    ELSE LET item == children[i] IN
         IF SampleReached(sample_size, acc.scanned) THEN acc
         ELSE IF ~item.isDir
         THEN TVChildren(base_path, children, i + 1, sample_size,
                         season_pattern, trailer_subdir, acc)
         ELSE IF ~is_tvshow_directory(season_pattern, item)
         THEN TVChildren(base_path, children, i + 1, sample_size,
                         season_pattern, trailer_subdir, acc)
         ELSE LET counted == [acc EXCEPT !.scanned = @ + 1]
                  added == [counted EXCEPT
                              !.missing = Append(@, ChildPath(base_path, item))]
              IN  IF ~TV_has_trailer(trailer_subdir, item)
                  THEN TVChildren(base_path, children, i + 1, sample_size,
                                  season_pattern, trailer_subdir, added)
                  ELSE TVChildren(base_path, children, i + 1, sample_size,
                                  season_pattern, trailer_subdir, counted)

RECURSIVE TVPaths(_, _, _, _, _, _, _)
TVPaths(tree, paths, j, sample_size, season_pattern, trailer_subdir, acc) ==
    IF j > Len(paths) THEN acc
    ELSE LET base_path == paths[j] IN
         IF ~exists(tree, base_path)
         THEN TVPaths(tree, paths, j + 1, sample_size, season_pattern,
                      trailer_subdir, acc)
         ELSE IF ~is_dir(tree, base_path)
         THEN TVPaths(tree, paths, j + 1, sample_size, season_pattern,
                      trailer_subdir, acc)
         ELSE LET opened == [acc EXCEPT !.listed = Append(@, base_path)]
                  after == IF ~listable(tree, base_path) THEN opened
                           ELSE TVChildren(base_path, tree[base_path].children, 1,
                                           sample_size, season_pattern,
                                           trailer_subdir, opened)
              IN  IF SampleReached(sample_size, after.scanned) THEN after
                  ELSE TVPaths(tree, paths, j + 1, sample_size, season_pattern,
                               trailer_subdir, after)

(***************************************************************************)
(* State.                                                                  *)
(***************************************************************************)
VARIABLES
    fs,         \* the directory tree: root path -> [kind, children]
    fsEpoch,    \* number of changes made to the tree so far
    now,        \* time.time(), in seconds
    scanners,   \* the FileSystemScanner instances constructed so far
    disk,       \* diskcache stores: cache directory -> (key -> entry)
    cacheit,    \* the CacheIt store: key -> entry
    calls,      \* number of scan calls made so far
    last        \* the latest call: its arguments and what it returned

vars == <<fs, fsEpoch, now, scanners, disk, cacheit, calls, last>>

DEFAULT_CACHE_DIR == ".cache/filesystemscanner"

CacheDirs == {DEFAULT_CACHE_DIR, ".cache/other"}

TimeStep == DEFAULT_CACHE_TTL \div 2

TTLChoices == {DEFAULT_CACHE_TTL}

PathA == <<"a">>

PathB == <<"b">>

PathLists == {<<>>, <<PathA>>, <<PathA, PathB>>, <<PathB, PathA>>}

MOVIE_FILTER == <<"m", "o", "v", "i", "e">>

TVSHOW_FILTER == <<"t", "v">>

FilterChoices == { <<"has_video_files", MOVIE_FILTER>> }

MaxResultsChoices == {NoLimit} \cup (1..MaxSample)

SampleSizes == 0..MaxSample

\* Library roots as they may be found when the program starts.
LibraryA ==
    <<ChildDir(1, MovieNoTrailer), ChildFile(2), ChildDir(3, MovieNoTrailer)>>

LibraryB ==
    <<ChildDir(1, ShowNoTrailer), ChildDir(2, MovieWithTrailer),
      ChildDir(3, ShowNoTrailer)>>

InitialTree ==
    [root \in Roots |->
        [kind |-> "dir",
         children |-> IF root = PathA THEN LibraryA ELSE LibraryB]]

\* Cache stores are functions defined on the keys present.
Get(cache, key) == IF key \in DOMAIN cache THEN cache[key] ELSE None

Set(cache, key, value) ==
    [k \in DOMAIN cache \cup {key} |-> IF k = key THEN value ELSE cache[k]]

Delete(cache, key) == [k \in DOMAIN cache \ {key} |-> cache[k]]

EmptyCache == <<>>

\* FileSystemScanner.__init__
FileSystemScanner_init(cache_ttl, cache_dir) ==
    [video_extensions |-> VIDEO_EXTENSIONS,
     cache_ttl |-> cache_ttl,
     cache_dir |-> cache_dir]

NoCall ==
    [op |-> "none", scanner |-> 0, paths |-> <<>>, filter_func |-> "none",
     filter_name |-> <<>>, limit |-> NoLimit, outcome |-> "none",
     result |-> <<>>, hit |-> FALSE, stale |-> FALSE, listed |-> <<>>,
     probed |-> <<>>, validated |-> <<>>,
     skipped |-> <<>>,         \* the roots passed over when the list returned was made
     j |-> 0,                  \* a scan in progress: the next root of paths
     \* a classification predicate applied to a directory:
     dir |-> [name |-> <<>>, isDir |-> TRUE, readable |-> TRUE, entries |-> {}],
     pattern |-> <<>>,         \* season_pattern as passed to TVShowScanner
     extensions |-> {},        \* video_extensions of the FileSystemScanner
     verdict |-> FALSE,
     \* a download of trailers:
     urls |-> <<>>,            \* youtube_urls
     existing |-> {},          \* the output files that were there before
     downloadable |-> {},      \* the URLs yt-dlp manages to download
     attempts |-> <<>>,        \* the URLs handed to download(), in order
     fetched |-> <<>>,         \* the URLs handed to yt-dlp, in order
     \* a cache key made by _create_cache_key, and the call before it:
     key |-> <<>>, prev_paths |-> <<>>, prev_filter_name |-> <<>>,
     prev_key |-> <<>>,
     \* downloads for several media directories:
     trailer_results |-> <<>>,   \* the dict given, as its items in order
     download_results |-> <<>>,  \* the dict returned, as its items in order
     invoked |-> <<>>,           \* the directories the downloader was called for
     \* a run of the command line (main.py):
     movies_without_trailers |-> <<>>, tvshows_without_trailers |-> <<>>,
     movie_results |-> <<>>, tvshow_results |-> <<>>,   \* dicts, as items
     total_found |-> 0,
     download_phase |-> FALSE,   \* _download_and_display_trailers was called
     reported |-> {},            \* the messages of _main about the download
     \* the construction of a YoutubeTrailerScraper:
     use_smb |-> FALSE,        \* the constructor parameter
     env |-> <<>>,             \* the environment after load_dotenv
     use_smb_mount |-> FALSE, smb_mount_point |-> <<>>,
     movies_paths_raw |-> <<>>, movies_paths |-> <<>>,
     \* a run of fix_trailer_extensions.py:
     dry_run |-> FALSE,
     files_to_rename |-> {},   \* the pairs (old_path, new_path)
     renamed_count |-> 0,
     before |-> <<>>,          \* the tree the run started on
     \* a request of TMDBSearchEngine._make_request:
     max_retries |-> 0,
     answers |-> <<>>,         \* whether the n-th requests.get would succeed
     requests |-> 0,           \* requests.get calls made
     sleeps |-> 0,             \* time.sleep(retry_delay) calls made
     response |-> 0,           \* the request whose JSON was returned (0: none)
     error |-> 0,              \* the request whose exception was raised (0: none)
     \* history, kept for stating the properties:
     epoch |-> 0,              \* fsEpoch when the call was made
     prev_scanner |-> 0,       \* scanner of the scan_directories call just before
     prev_filter_func |-> "none",  \* its filter_func
     prev_extensions |-> {},       \* the video_extensions of its scanner
     after_clear |-> FALSE,    \* the key was dropped by the clear just before
     old |-> <<>>,             \* the list that clear dropped for the key
     cleared |-> EmptyCache]   \* clear: the entries it dropped

Init ==
    /\ fs = InitialTree
    /\ fsEpoch = 0
    /\ now = 0
    /\ scanners = <<FileSystemScanner_init(DEFAULT_CACHE_TTL, DEFAULT_CACHE_DIR)>>
    /\ disk = [d \in CacheDirs |-> EmptyCache]
    /\ cacheit = EmptyCache
    /\ calls = 0
    /\ last = NoCall

(***************************************************************************)
(* The environment: time passes and the library changes.                   *)
(***************************************************************************)
Tick ==
    /\ now < MaxTicks * TimeStep
    /\ now' = now + TimeStep
    /\ UNCHANGED <<fs, fsEpoch, scanners, disk, cacheit, calls, last>>

ChangeTree(tree) ==
    /\ fsEpoch < MaxFsChanges
    /\ fs' = tree
    /\ fsEpoch' = fsEpoch + 1
    /\ UNCHANGED <<now, scanners, disk, cacheit, calls, last>>

\* A new media directory appears under a root.
AddChild(root, entries) ==
    /\ Len(fs[root].children) < MaxChildren
    /\ ChangeTree([fs EXCEPT ![root].children =
                      Append(@, ChildDir(Len(@) + 1, entries))])

\* A trailer file is saved next to the movie file.
AddMovieTrailer(root, i) ==
    /\ i \in 1..Len(fs[root].children)
    /\ fs[root].children[i].isDir
    /\ TrailerFile \notin fs[root].children[i].entries
    /\ ChangeTree([fs EXCEPT ![root].children[i].entries = @ \cup {TrailerFile}])

\* A trailer file is saved in the trailers subdirectory of a show.
AddShowTrailer(root, i) ==
    /\ i \in 1..Len(fs[root].children)
    /\ fs[root].children[i].isDir
    /\ TrailersDir \notin fs[root].children[i].entries
    /\ ChangeTree([fs EXCEPT ![root].children[i].entries = @ \cup {TrailersDir}])

\* A root disappears, is replaced by a file, loses or regains its permissions.
SetRootKind(root, kind) ==
    /\ fs[root].kind # kind
    /\ ChangeTree([fs EXCEPT ![root].kind = kind])

(***************************************************************************)
(* FileSystemScanner.                                                      *)
(***************************************************************************)
\* Variant: constructing a scanner starts from an empty store.
NewScanner_ResetsStore(cache_ttl, cache_dir) ==
    /\ Len(scanners) < MaxScanners
    /\ scanners' = Append(scanners, FileSystemScanner_init(cache_ttl, cache_dir))
    /\ disk' = [disk EXCEPT ![cache_dir] = EmptyCache]
    /\ UNCHANGED <<fs, fsEpoch, now, cacheit, calls, last>>

\* A further FileSystemScanner is constructed, as a later run of the
\* program does.
NewScanner(cache_ttl, cache_dir) ==
    /\ Len(scanners) < MaxScanners
    /\ scanners' = Append(scanners, FileSystemScanner_init(cache_ttl, cache_dir))
    /\ UNCHANGED <<fs, fsEpoch, now, disk, cacheit, calls, last>>

\* FileSystemScanner(video_extensions, cache_ttl, cache_dir)
NewScannerWith(video_extensions, cache_ttl, cache_dir) ==
    /\ Len(scanners) < MaxScanners
    /\ scanners' = Append(scanners,
                          [FileSystemScanner_init(cache_ttl, cache_dir)
                              EXCEPT !.video_extensions = video_extensions])
    /\ UNCHANGED <<fs, fsEpoch, now, disk, cacheit, calls, last>>

Call(op, scanner, paths, filter_func, filter_name, limit, key) ==
    [NoCall EXCEPT !.op = op, !.scanner = scanner, !.paths = paths,
                   !.filter_func = filter_func, !.filter_name = filter_name,
                   !.limit = limit, !.epoch = fsEpoch,
                   !.prev_scanner = IF last.op = "scan_directories"
                                    THEN last.scanner ELSE 0,
                   !.prev_filter_func = IF last.op = "scan_directories"
                                        THEN last.filter_func ELSE "none",
                   !.prev_extensions = IF last.op = "scan_directories"
                                       THEN scanners[last.scanner].video_extensions
                                       ELSE {},
                   !.after_clear = (key \in DOMAIN last.cleared),
                   !.old = Get(last.cleared, key).data]

\* Variant: the emptiness test is missing.
not_paths_Never(paths) == FALSE

\* "if not paths": the list is empty (or None).
not_paths(paths) == paths = <<>>

\* Variant: an entry whose age equals cache_ttl is still served.
CacheHit_Inclusive(cached_result, cache_ttl) ==
    /\ cached_result # None
    /\ now - cached_result.time <= cache_ttl

\* Variant: cache_ttl is taken for milliseconds.
CacheHit_Millis(cached_result, cache_ttl) ==
    /\ cached_result # None
    /\ now - cached_result.time < cache_ttl \div 1000

\* The entry found under the key is served: it exists and is younger than
\* the scanner's cache_ttl.
CacheHit(cached_result, cache_ttl) ==
    /\ cached_result # None
    /\ now - cached_result.time < cache_ttl

\* Variant: a traversal that passed over a root is not stored.
scan_directories_DropsPartial(self, paths, filter_func, filter_name, max_results) ==
    LET this == scanners[self]
        store == disk[this.cache_dir]
        cache_key == _create_cache_key(paths, filter_name)
        call == Call("scan_directories", self, paths, filter_func, filter_name,
                     max_results, <<this.cache_dir, cache_key>>)
        cached_result == Get(store, cache_key)
        scan == ScanPaths(fs, paths, 1, filter_func, this.video_extensions,
                          max_results, EmptyScan)
        \* history: the roots the traversal could not list, and whether the
        \* entry found is the one the call just before stored or returned
        skipped == SelectSeq(scan.validated, LAMBDA root : ~listable(fs, root))
        served == /\ last.op = "scan_directories"
                  /\ last.outcome = "ok"
                  /\ scanners[last.scanner].cache_dir = this.cache_dir
                  /\ _create_cache_key(last.paths, last.filter_name) = cache_key
    IN  /\ calls' = calls + 1
        /\ IF not_paths(paths)
           THEN /\ last' = [call EXCEPT !.outcome = "ValueError"]
                /\ UNCHANGED disk
           ELSE IF CacheHit(cached_result, this.cache_ttl)
           THEN /\ last' = [call EXCEPT !.outcome = "ok", !.hit = TRUE,
                                        !.result = cached_result.data,
                                        !.skipped = IF served THEN last.skipped
                                                    ELSE <<>>]
                /\ UNCHANGED disk
           ELSE /\ last' = [call EXCEPT !.outcome = "ok",
                                        !.stale = (cached_result # None),
                                        !.result = scan.dirs,
                                        !.listed = scan.listed,
                                        !.probed = scan.probed,
                                        !.validated = scan.validated,
                                        !.skipped = skipped]
                /\ disk' = [disk EXCEPT ![this.cache_dir] =
                              IF skipped # <<>> THEN Delete(store, cache_key)
                              ELSE Set(Delete(store, cache_key), cache_key,
                                       [data |-> scan.dirs, time |-> now])]
        /\ UNCHANGED <<fs, fsEpoch, now, scanners, cacheit>>

\* FileSystemScanner.scan_directories
scan_directories(self, paths, filter_func, filter_name, max_results) ==
    LET this == scanners[self]
        store == disk[this.cache_dir]
        cache_key == _create_cache_key(paths, filter_name)
        call == Call("scan_directories", self, paths, filter_func, filter_name,
                     max_results, <<this.cache_dir, cache_key>>)
        cached_result == Get(store, cache_key)
        scan == ScanPaths(fs, paths, 1, filter_func, this.video_extensions,
                          max_results, EmptyScan)
        \* history: the roots the traversal could not list, and whether the
        \* entry found is the one the call just before stored or returned
        skipped == SelectSeq(scan.validated, LAMBDA root : ~listable(fs, root))
        served == /\ last.op = "scan_directories"
                  /\ last.outcome = "ok"
                  /\ scanners[last.scanner].cache_dir = this.cache_dir
                  /\ _create_cache_key(last.paths, last.filter_name) = cache_key
    IN  /\ calls' = calls + 1
        /\ IF not_paths(paths)
           THEN /\ last' = [call EXCEPT !.outcome = "ValueError"]
                /\ UNCHANGED disk
           ELSE IF CacheHit(cached_result, this.cache_ttl)
           THEN /\ last' = [call EXCEPT !.outcome = "ok", !.hit = TRUE,
                                        !.result = cached_result.data,
                                        !.skipped = IF served THEN last.skipped
                                                    ELSE <<>>]
                /\ UNCHANGED disk
           ELSE /\ last' = [call EXCEPT !.outcome = "ok",
                                        !.stale = (cached_result # None),
                                        !.result = scan.dirs,
                                        !.listed = scan.listed,
                                        !.probed = scan.probed,
                                        !.validated = scan.validated,
                                        !.skipped = skipped]
                /\ disk' = [disk EXCEPT ![this.cache_dir] =
                              Set(Delete(store, cache_key), cache_key,
                                  [data |-> scan.dirs, time |-> now])]
        /\ UNCHANGED <<fs, fsEpoch, now, scanners, cacheit>>

(***************************************************************************)
(* FileSystemScanner.scan_directories step by step: the lookup, one step   *)
(* per root of the outer loop, the store.  The call in progress is kept in *)
(* `last` with outcome "scanning"; the tree and the clock may change       *)
(* between the steps.                                                      *)
(***************************************************************************)
Scanning == last.op = "scan_directories" /\ last.outcome = "scanning"

\* Lines 195-212: the emptiness test, the cache lookup and the TTL test.
scan_lookup(self, paths, filter_func, filter_name, max_results) ==
    LET this == scanners[self]
        store == disk[this.cache_dir]
        cache_key == _create_cache_key(paths, filter_name)
        call == Call("scan_directories", self, paths, filter_func, filter_name,
                     max_results, <<this.cache_dir, cache_key>>)
        cached_result == Get(store, cache_key)
    IN  /\ ~Scanning
        /\ calls' = calls + 1
        /\ IF not_paths(paths)
           THEN /\ last' = [call EXCEPT !.outcome = "ValueError"]
                /\ UNCHANGED disk
           ELSE IF CacheHit(cached_result, this.cache_ttl)
           THEN /\ last' = [call EXCEPT !.outcome = "ok", !.hit = TRUE,
                                        !.result = cached_result.data]
                /\ UNCHANGED disk
           ELSE /\ last' = [call EXCEPT !.outcome = "scanning",
                                        !.stale = (cached_result # None),
                                        !.j = 1]
                /\ disk' = [disk EXCEPT ![this.cache_dir] = Delete(store, cache_key)]
        /\ UNCHANGED <<fs, fsEpoch, now, scanners, cacheit>>

\* Variant: the matches found so far are stored after every root.
scan_root_StoresPartial ==
    LET this == scanners[last.scanner]
        acc == [dirs |-> last.result, validated |-> last.validated,
                listed |-> last.listed, probed |-> last.probed]
        after == ScanPaths(fs, <<last.paths[last.j]>>, 1, last.filter_func,
                           this.video_extensions, last.limit, acc)
    IN  /\ Scanning
        /\ last.j <= Len(last.paths)
        /\ last' = [last EXCEPT
                      !.result = after.dirs, !.validated = after.validated,
                      !.listed = after.listed, !.probed = after.probed,
                      !.j = IF Truthy(last.limit) /\ Len(after.dirs) >= last.limit
                            THEN Len(last.paths) + 1 ELSE @ + 1]
        /\ disk' = [disk EXCEPT ![this.cache_dir] =
                      Set(@, _create_cache_key(last.paths, last.filter_name),
                          [data |-> after.dirs, time |-> now])]
        /\ UNCHANGED <<fs, fsEpoch, now, scanners, cacheit, calls>>

\* Lines 214-245: one pass of the loop over paths.
scan_root ==
    LET this == scanners[last.scanner]
        acc == [dirs |-> last.result, validated |-> last.validated,
                listed |-> last.listed, probed |-> last.probed]
        after == ScanPaths(fs, <<last.paths[last.j]>>, 1, last.filter_func,
                           this.video_extensions, last.limit, acc)
    IN  /\ Scanning
        /\ last.j <= Len(last.paths)
        /\ last' = [last EXCEPT
                      !.result = after.dirs, !.validated = after.validated,
                      !.listed = after.listed, !.probed = after.probed,
                      !.j = IF Truthy(last.limit) /\ Len(after.dirs) >= last.limit
                            THEN Len(last.paths) + 1 ELSE @ + 1]
        /\ UNCHANGED <<fs, fsEpoch, now, scanners, disk, cacheit, calls>>

\* Lines 247-253: the result is stored with the time of the store, and
\* returned.
scan_store ==
    LET this == scanners[last.scanner]
        cache_key == _create_cache_key(last.paths, last.filter_name)
    IN  /\ Scanning
        /\ last.j > Len(last.paths)
        /\ disk' = [disk EXCEPT ![this.cache_dir] =
                      Set(@, cache_key, [data |-> last.result, time |-> now])]
        /\ last' = [last EXCEPT !.outcome = "ok", !.j = 0]
        /\ UNCHANGED <<fs, fsEpoch, now, scanners, cacheit, calls>>

\* FileSystemScanner.clear_cache
clear_cache(self) ==
    /\ disk' = [disk EXCEPT ![scanners[self].cache_dir] = EmptyCache]
    /\ last' = [NoCall EXCEPT
                  !.op = "clear_cache", !.scanner = self, !.outcome = "ok",
                  !.cleared = [k \in {<<scanners[self].cache_dir, key>> :
                                         key \in DOMAIN disk[scanners[self].cache_dir]}
                               |-> disk[scanners[self].cache_dir][k[2]]]]
    /\ UNCHANGED <<fs, fsEpoch, now, scanners, cacheit, calls>>

(***************************************************************************)
(* The CacheIt decorator (pymate) as the scanners use it: a persistent     *)
(* store keyed by the decorated function and its arguments, whose entries  *)
(* are served for max_duration seconds.                                    *)
(***************************************************************************)
CacheItKey(function, paths, sample_size) == <<function, paths, sample_size>>

\* Variant: max_duration is not honoured, nothing is ever served.
CacheItFresh_Never(entry, max_duration) ==
    entry # None /\ now - entry.time < 0

CacheItFresh(entry, max_duration) ==
    entry # None /\ now - entry.time < max_duration

\* find_missing_trailers.clear_cache()
CacheItClear(cache, function) ==
    [k \in {key \in DOMAIN cache : key[1] # function} |-> cache[k]]

(***************************************************************************)
(* MovieScanner and TVShowScanner: the decorated find_missing_trailers.    *)
(***************************************************************************)
Movie_find_missing_trailers(paths, sample_size) ==
    LET key == CacheItKey("MovieScanner.find_missing_trailers", paths, sample_size)
        call == Call("Movie_find_missing_trailers", 0, paths, "none", <<>>,
                     sample_size, key)
        cached == Get(cacheit, key)
        found == MoviePaths(fs, paths, 1, sample_size, EmptyFind)
    IN  /\ calls' = calls + 1
        /\ IF CacheItFresh(cached, CACHEIT_MAX_DURATION)
           THEN /\ last' = [call EXCEPT !.outcome = "ok", !.hit = TRUE,
                                        !.result = cached.data]
                /\ UNCHANGED cacheit
           ELSE IF paths = <<>>
           THEN /\ last' = [call EXCEPT !.outcome = "ValueError"]
                /\ UNCHANGED cacheit
           ELSE /\ last' = [call EXCEPT !.outcome = "ok",
                                        !.stale = (cached # None),
                                        !.result = found.missing,
                                        !.listed = found.listed]
                /\ cacheit' = Set(cacheit, key,
                                  [data |-> found.missing, time |-> now])
        /\ UNCHANGED <<fs, fsEpoch, now, scanners, disk>>

TV_find_missing_trailers(paths, sample_size) ==
    LET key == CacheItKey("TVShowScanner.find_missing_trailers", paths, sample_size)
        call == Call("TV_find_missing_trailers", 0, paths, "none", <<>>,
                     sample_size, key)
        cached == Get(cacheit, key)
        found == TVPaths(fs, paths, 1, sample_size, SEASON_PATTERN,
                         TRAILERS_SUBDIR, EmptyFind)
    IN  /\ calls' = calls + 1
        /\ IF CacheItFresh(cached, CACHEIT_MAX_DURATION)
           THEN /\ last' = [call EXCEPT !.outcome = "ok", !.hit = TRUE,
                                        !.result = cached.data]
                /\ UNCHANGED cacheit
           ELSE IF paths = <<>>
           THEN /\ last' = [call EXCEPT !.outcome = "ValueError"]
                /\ UNCHANGED cacheit
           ELSE /\ last' = [call EXCEPT !.outcome = "ok",
                                        !.stale = (cached # None),
                                        !.result = found.missing,
                                        !.listed = found.listed]
                /\ cacheit' = Set(cacheit, key,
                                  [data |-> found.missing, time |-> now])
        /\ UNCHANGED <<fs, fsEpoch, now, scanners, disk>>

\* YoutubeTrailerScraper as its configuration leaves it: the library roots
\* of MOVIES_PATHS and TVSHOWS_PATHS and SCAN_SAMPLE_SIZE (NoLimit when unset).
ScraperConfigs ==
    [movies_paths : PathLists, tvshows_paths : PathLists,
     scan_sample_size : MaxResultsChoices]

\* The orchestrator returns [] itself: no scanner is constructed.
Scraper_returns_empty(op, paths) ==
    /\ calls' = calls + 1
    /\ last' = [NoCall EXCEPT !.op = op, !.paths = paths, !.outcome = "ok",
                               !.result = <<>>, !.epoch = fsEpoch]
    /\ UNCHANGED <<fs, fsEpoch, now, scanners, disk, cacheit>>

\* Variant: the configured list is handed to the scanner without the
\* emptiness test.
scan_for_movies_without_trailers_NoGuard(self, use_sample) ==
    LET sample_size == IF use_sample /\ Truthy(self.scan_sample_size)
                       THEN self.scan_sample_size ELSE 0
    IN  Movie_find_missing_trailers(self.movies_paths, sample_size)

\* YoutubeTrailerScraper.scan_for_movies_without_trailers
scan_for_movies_without_trailers(self, use_sample) ==
    LET sample_size == IF use_sample /\ Truthy(self.scan_sample_size)
                       THEN self.scan_sample_size ELSE 0
    IN  IF self.movies_paths = <<>>
        THEN Scraper_returns_empty("scan_for_movies_without_trailers",
                                   self.movies_paths)
        ELSE Movie_find_missing_trailers(self.movies_paths, sample_size)

\* YoutubeTrailerScraper.scan_for_tvshows_without_trailers
scan_for_tvshows_without_trailers(self, use_sample) ==
    LET sample_size == IF use_sample /\ Truthy(self.scan_sample_size)
                       THEN self.scan_sample_size ELSE 0
    IN  IF self.tvshows_paths = <<>>
        THEN Scraper_returns_empty("scan_for_tvshows_without_trailers",
                                   self.tvshows_paths)
        ELSE TV_find_missing_trailers(self.tvshows_paths, sample_size)

\* Variant: only the TV show scanner's cache is cleared.
Scraper_clear_cache_TVOnly ==
    /\ cacheit' = CacheItClear(cacheit, "TVShowScanner.find_missing_trailers")
    /\ last' = [NoCall EXCEPT !.op = "Scraper_clear_cache", !.outcome = "ok",
                               !.cleared = cacheit]
    /\ UNCHANGED <<fs, fsEpoch, now, scanners, disk, calls>>

\* YoutubeTrailerScraper.clear_cache
Scraper_clear_cache ==
    /\ cacheit' = CacheItClear(
                      CacheItClear(cacheit, "MovieScanner.find_missing_trailers"),
                      "TVShowScanner.find_missing_trailers")
    /\ last' = [NoCall EXCEPT !.op = "Scraper_clear_cache", !.outcome = "ok",
                               !.cleared = cacheit]
    /\ UNCHANGED <<fs, fsEpoch, now, scanners, disk, calls>>

(***************************************************************************)
(* The classification predicates applied to one directory.  The            *)
(* directories are drawn from what a media directory may hold: videos,     *)
(* trailers, other files, hidden files, season and other subdirectories,   *)
(* each readable or not.                                                   *)
(***************************************************************************)
NoteFile == File(<<"n", ".", "t", "x", "t">>)

PreviewFile == File(<<"p", "r", "e", "v", "i", "e", "w", ".", "m", "p", "4">>)

FilePool ==
    { MovieFile, EpisodeFile, TrailerFile, NoteFile, PreviewFile,
      File(<<"T", "R", "A", "I", "L", "E", "R">>),
      File(<<"m", "y", "t", "r", "a", "i", "l", "e", "r", ".", "t", "x", "t">>),
      File(<<".", "m", "p", "4">>),
      File(<<"m", ".", "m", "p", "4", ".", "x">>),
      Dir(<<"t", "r", "a", "i", "l", "e", "r", ".", "m", "p", "4">>, {MovieFile}) }

SubdirNames ==
    { <<"S", "e", "a", "s", "o", "n", " ", "0", "1">>,
      <<"S", "E", "A", "S", "O", "N", "2">>,
      <<"s", "1">>,
      <<"E", "x", "t", "r", "a", "s">>,
      <<"x", "s", "e", "a", "s", "o", "n">> }

SubdirPool ==
    { [name |-> n, isDir |-> TRUE, readable |-> r, entries |-> e] :
         n \in SubdirNames, r \in BOOLEAN, e \in {{}, {EpisodeFile}, {NoteFile}} }
    \cup { File(<<"S", "e", "a", "s", "o", "n", " ", "0", "1">>), EpisodeFile }

RECURSIVE UpTo(_, _)
\* The subsets of a pool that hold at most k entries.
UpTo(pool, k) ==
    IF k = 0 THEN {{}}
    ELSE LET smaller == UpTo(pool, k - 1)
         IN  smaller \cup {x \cup {y} : x \in smaller, y \in pool}

\* The directories holding at most MaxEntries entries of a pool.
Directories(pool) ==
    { [name |-> <<"d">>, isDir |-> TRUE, readable |-> r, entries |-> e] :
         r \in BOOLEAN, e \in UpTo(pool, MaxEntries) }

ExtensionChoices ==
    { VIDEO_EXTENSIONS,
      { <<".", "m", "p", "4">>, <<".", "w", "e", "b", "m">> } }

SeasonPatternChoices ==
    { <<"s", "e", "a", "s", "o", "n">>, <<"S", "e", "a", "s", "o", "n">>, <<"S">> }

\* TVShowScanner.__init__
TVShowScanner_init(trailer_subdir, season_pattern) ==
    [trailer_subdir |-> trailer_subdir, season_pattern |-> Lower(season_pattern)]

Classified(op, directory, verdict) ==
    /\ last' = [NoCall EXCEPT !.op = op, !.outcome = "ok", !.dir = directory,
                               !.verdict = verdict]
    /\ calls' = calls + 1
    /\ UNCHANGED <<fs, fsEpoch, now, scanners, disk, cacheit>>

\* MovieScanner._has_video_files(directory)
Call_Movie_has_video_files(directory) ==
    Classified("MovieScanner._has_video_files", directory,
               Movie_has_video_files(directory))

\* FileSystemScanner(video_extensions).has_video_files(directory)
Call_has_video_files(video_extensions, directory) ==
    LET this == [FileSystemScanner_init(DEFAULT_CACHE_TTL, DEFAULT_CACHE_DIR)
                    EXCEPT !.video_extensions = video_extensions]
    IN  /\ last' = [NoCall EXCEPT
                      !.op = "FileSystemScanner.has_video_files",
                      !.outcome = "ok", !.dir = directory,
                      !.extensions = this.video_extensions,
                      !.verdict = has_video_files(this.video_extensions, directory)]
        /\ calls' = calls + 1
        /\ UNCHANGED <<fs, fsEpoch, now, scanners, disk, cacheit>>

\* MovieScanner.has_trailer(movie_dir)
Call_Movie_has_trailer(movie_dir) ==
    Classified("MovieScanner.has_trailer", movie_dir, Movie_has_trailer(movie_dir))

\* TVShowScanner(season_pattern=...)._is_tvshow_directory(directory)
Call_is_tvshow_directory(season_pattern, directory) ==
    LET this == TVShowScanner_init(TRAILERS_SUBDIR, season_pattern)
    IN  /\ last' = [NoCall EXCEPT
                      !.op = "TVShowScanner._is_tvshow_directory",
                      !.outcome = "ok", !.dir = directory,
                      !.pattern = season_pattern,
                      !.verdict = is_tvshow_directory(this.season_pattern, directory)]
        /\ calls' = calls + 1
        /\ UNCHANGED <<fs, fsEpoch, now, scanners, disk, cacheit>>

(***************************************************************************)
(* YoutubeDownloader.  What yt-dlp does is the environment's choice: the   *)
(* set of URLs it manages to download.                                     *)
(***************************************************************************)
NoPath == <<>>

UrlPool == {"", "https://youtube.com/watch?v=1", "https://youtube.com/watch?v=2"}

RECURSIVE UrlLists(_)
\* The lists of at most n URLs.
UrlLists(n) ==
    IF n = 0 THEN {<<>>}
    ELSE LET shorter == UrlLists(n - 1)
         IN  shorter \cup {Append(l, u) : l \in shorter, u \in UrlPool}

MoviePath == <<PathA, <<"d", "1">>>>

\* f"{movie_name} - trailer #{idx} -trailer" and f"trailer #{idx}"
TrailerFilename(media, name, idx) ==
    IF media = "movie" THEN <<name, " - trailer #", idx, " -trailer">>
    ELSE <<"trailer #", idx>>

\* Variant: the trailers of a movie go to a "trailers" subdirectory too.
TrailerDir_AlwaysSubdir(media, media_path) ==
    Append(media_path, TRAILERS_SUBDIR)

\* movie_path for a movie, tvshow_path / "trailers" for a TV show
TrailerDir(media, media_path) ==
    IF media = "movie" THEN media_path ELSE Append(media_path, TRAILERS_SUBDIR)

\* output_dir / f"{output_filename}.mp4"
OutputPath(output_dir, output_filename) ==
    <<output_dir, Append(output_filename, ".mp4")>>

\* Variant: the download is made whether or not the output file exists.
download_Overwrites(url, output_dir, output_filename, existing, downloadable) ==
    LET output_path == OutputPath(output_dir, output_filename)
    IN  IF url = "" THEN [path |-> NoPath, fetched |-> FALSE]
        ELSE IF url \in downloadable
        THEN [path |-> output_path, fetched |-> TRUE]
        ELSE [path |-> NoPath, fetched |-> TRUE]

\* YoutubeDownloader.download: the path returned (NoPath for None) and
\* whether yt-dlp was run.
download(url, output_dir, output_filename, existing, downloadable) ==
    LET output_path == OutputPath(output_dir, output_filename)
    IN  IF url = "" THEN [path |-> NoPath, fetched |-> FALSE]
        ELSE IF output_path \in existing
        THEN [path |-> output_path, fetched |-> FALSE]
        ELSE IF url \in downloadable
        THEN [path |-> output_path, fetched |-> TRUE]
        ELSE [path |-> NoPath, fetched |-> TRUE]

EmptyDownload == [downloaded_paths |-> <<>>, attempts |-> <<>>, fetched |-> <<>>]

RECURSIVE DownloadEach(_, _, _, _, _, _, _)
\* for idx, url in enumerate(urls_to_download, start=1)
DownloadEach(media, media_path, urls_to_download, idx, existing, downloadable, acc) ==
    IF idx > Len(urls_to_download) THEN acc
    ELSE LET url == urls_to_download[idx]
             filename == TrailerFilename(media, media_path[Len(media_path)], idx)
             got == download(url, TrailerDir(media, media_path), filename,
                             existing, downloadable)
             tried == [acc EXCEPT
                         !.attempts = Append(@, url),
                         !.fetched = IF got.fetched THEN Append(@, url) ELSE @]
         IN  DownloadEach(media, media_path, urls_to_download, idx + 1,
                          existing, downloadable,
                          IF got.path # NoPath
                          THEN [tried EXCEPT !.downloaded_paths = Append(@, got.path)]
                          ELSE tried)

\* youtube_urls[: self.MAX_TRAILERS_PER_MEDIA]
Slice(youtube_urls, n) ==
    SubSeq(youtube_urls, 1, IF Len(youtube_urls) < n THEN Len(youtube_urls) ELSE n)

Downloaded(op, media, media_path, youtube_urls, existing, downloadable, urls_to_download) ==
    LET done == IF youtube_urls = <<>> THEN EmptyDownload
                ELSE DownloadEach(media, media_path, urls_to_download, 1,
                                  existing, downloadable, EmptyDownload)
    IN  /\ last' = [NoCall EXCEPT !.op = op, !.outcome = "ok",
                                   !.paths = <<media_path>>,
                                   !.urls = youtube_urls,
                                   !.existing = existing,
                                   !.downloadable = downloadable,
                                   !.attempts = done.attempts,
                                   !.fetched = done.fetched,
                                   !.result = done.downloaded_paths]
        /\ calls' = calls + 1
        /\ UNCHANGED <<fs, fsEpoch, now, scanners, disk, cacheit>>

\* Variant: every URL of the list is downloaded.
download_trailers_for_movie_NoLimit(movie_path, youtube_urls, existing, downloadable) ==
    Downloaded("download_trailers_for_movie", "movie", movie_path, youtube_urls,
               existing, downloadable, youtube_urls)

\* YoutubeDownloader.download_trailers_for_movie
download_trailers_for_movie(movie_path, youtube_urls, existing, downloadable) ==
    Downloaded("download_trailers_for_movie", "movie", movie_path, youtube_urls,
               existing, downloadable, Slice(youtube_urls, MAX_TRAILERS_PER_MEDIA))

\* YoutubeDownloader.download_trailers_for_tvshow
download_trailers_for_tvshow(tvshow_path, youtube_urls, existing, downloadable) ==
    Downloaded("download_trailers_for_tvshow", "tvshow", tvshow_path, youtube_urls,
               existing, downloadable, Slice(youtube_urls, MAX_TRAILERS_PER_MEDIA))

\* The output files that may be there already: trailer #1 .. #MaxUrls.
OutputFiles(media, media_path) ==
    { OutputPath(TrailerDir(media, media_path),
                 TrailerFilename(media, media_path[Len(media_path)], idx)) :
         idx \in 1..MaxUrls }

(***************************************************************************)
(* The downloader run on the library tree: the output directory is made,   *)
(* the files that exist are read from the tree and the files yt-dlp        *)
(* leaves are added to it.                                                 *)
(***************************************************************************)
\* The characters of the literal parts of the file names.
Chars(part) ==
    CASE part = " - trailer #" ->
            <<" ", "-", " ", "t", "r", "a", "i", "l", "e", "r", " ", "#">>
      [] part = " -trailer" ->
            <<" ", "-", "t", "r", "a", "i", "l", "e", "r">>
      [] part = "trailer #" ->
            <<"t", "r", "a", "i", "l", "e", "r", " ", "#">>
      [] part = ".mp4" -> <<".", "m", "p", "4">>

\* The file name an output_filename stands for, character by character.
FileName(media, output_filename) ==
    IF media = "movie"
    THEN output_filename[1] \o Chars(output_filename[2])
         \o <<ToString(output_filename[3])>> \o Chars(output_filename[4])
    ELSE Chars(output_filename[1]) \o <<ToString(output_filename[2])>>

\* What yt-dlp appends to outtmpl (the output path less its suffix): the
\* container's extension, or nothing.
SavedSuffixes == {Chars(".mp4"), <<>>}

\* The directory node at output_dir below the media directory `item`:
\* `item` itself, or its subdirectory of that name (None when there is none).
DirNode(item, media_path, output_dir) ==
    IF output_dir = media_path THEN item
    ELSE LET found == {n \in item.entries :
                          n.isDir /\ n.name = output_dir[Len(output_dir)]}
         IN  IF found = {} THEN None ELSE CHOOSE n \in found : TRUE

\* output_path.exists(), for the output paths of the media directory
ExistingOutputs(media, item, media_path) ==
    LET node == DirNode(item, media_path, TrailerDir(media, media_path))
    IN  IF node = None THEN {}
        ELSE { OutputPath(TrailerDir(media, media_path),
                          TrailerFilename(media, item.name, idx)) :
                  idx \in { k \in 1..MaxUrls :
                              \E f \in node.entries :
                                 f.name = FileName(media, TrailerFilename(media, item.name, k))
                                             \o Chars(".mp4") } }

\* The media directory after output_dir.mkdir(parents=True, exist_ok=True)
\* and after yt-dlp has left `files` in output_dir.
WithFiles(item, media_path, output_dir, files) ==
    IF output_dir = media_path
    THEN [item EXCEPT !.entries = @ \cup files]
    ELSE LET node == DirNode(item, media_path, output_dir)
         IN  IF node = None
             THEN [item EXCEPT !.entries =
                      @ \cup {Dir(output_dir[Len(output_dir)], files)}]
             ELSE [item EXCEPT !.entries =
                      (@ \ {node}) \cup {[node EXCEPT !.entries = @ \cup files]}]

\* download_trailers_for_movie / download_trailers_for_tvshow on the i-th
\* directory of a library root.
DownloadInto(op, media, root, i, youtube_urls, downloadable, suffix) ==
    LET item == fs[root].children[i]
        media_path == ChildPath(root, item)
        output_dir == TrailerDir(media, media_path)
        existing == ExistingOutputs(media, item, media_path)
        urls_to_download == Slice(youtube_urls, MAX_TRAILERS_PER_MEDIA)
        done == IF youtube_urls = <<>> THEN EmptyDownload
                ELSE DownloadEach(media, media_path, urls_to_download, 1,
                                  existing, downloadable, EmptyDownload)
        \* the indexes yt-dlp was run for and succeeded
        written == { idx \in 1..Len(urls_to_download) :
                        LET got == download(urls_to_download[idx], output_dir,
                                            TrailerFilename(media, item.name, idx),
                                            existing, downloadable)
                        IN  got.fetched /\ got.path # NoPath }
        files == { File(FileName(media, TrailerFilename(media, item.name, idx))
                           \o suffix) : idx \in written }
        \* line 90 is reached for every URL that is not empty
        made == \E idx \in 1..Len(urls_to_download) : urls_to_download[idx] # ""
        tree == IF made
                THEN [fs EXCEPT ![root].children[i] =
                         WithFiles(item, media_path, output_dir, files)]
                ELSE fs
    IN  /\ i \in 1..Len(fs[root].children)
        /\ item.isDir
        /\ last' = [NoCall EXCEPT !.op = op, !.outcome = "ok",
                                   !.paths = <<media_path>>,
                                   !.urls = youtube_urls,
                                   !.existing = existing,
                                   !.downloadable = downloadable,
                                   !.attempts = done.attempts,
                                   !.fetched = done.fetched,
                                   !.result = done.downloaded_paths]
        /\ IF tree = fs THEN UNCHANGED <<fs, fsEpoch>>
           ELSE /\ fsEpoch < MaxFsChanges
                /\ fs' = tree
                /\ fsEpoch' = fsEpoch + 1
        /\ UNCHANGED <<now, scanners, disk, cacheit, calls>>

RunUrlLists ==
    { <<>>, <<"https://youtube.com/watch?v=1">>,
      <<"", "https://youtube.com/watch?v=2">> }

\* yt-dlp fails for every URL, or for none.
RunDownloadable == { {}, UrlPool \ {""} }

(***************************************************************************)
(* YoutubeTrailerScraper.download_trailers_for_movies / _for_tvshows.  A   *)
(* dict is the sequence of its items, in insertion order.                  *)
(***************************************************************************)
OtherMoviePath == <<PathA, <<"d", "3">>>>

EmptyBatch == [download_results |-> <<>>, invoked |-> <<>>]

\* What download_trailers_for_movie / _for_tvshow returns when no output
\* file exists yet.
DownloadedPaths(media, media_path, youtube_urls, downloadable) ==
    IF youtube_urls = <<>> THEN <<>>
    ELSE DownloadEach(media, media_path,
                      Slice(youtube_urls, MAX_TRAILERS_PER_MEDIA), 1, {},
                      downloadable, EmptyDownload).downloaded_paths

RECURSIVE DownloadAll_NoSkip(_, _, _, _, _)
\* Variant: the downloader is called for every entry.
DownloadAll_NoSkip(media, trailer_results, n, downloadable, acc) ==
    IF n > Len(trailer_results) THEN acc
    ELSE LET media_path == trailer_results[n][1]
             youtube_urls == trailer_results[n][2]
         IN  DownloadAll_NoSkip(media, trailer_results, n + 1, downloadable,
                [download_results |->
                    Append(acc.download_results,
                           <<media_path,
                             DownloadedPaths(media, media_path, youtube_urls,
                                             downloadable)>>),
                 invoked |-> Append(acc.invoked, media_path)])

RECURSIVE DownloadAll(_, _, _, _, _)
\* for movie_path, youtube_urls in trailer_results.items()
DownloadAll(media, trailer_results, n, downloadable, acc) ==
    IF n > Len(trailer_results) THEN acc
    ELSE LET media_path == trailer_results[n][1]
             youtube_urls == trailer_results[n][2]
         IN  IF youtube_urls = <<>>
             THEN DownloadAll(media, trailer_results, n + 1, downloadable,
                     [acc EXCEPT !.download_results =
                                    Append(@, <<media_path, <<>>>>)])
             ELSE DownloadAll(media, trailer_results, n + 1, downloadable,
                     [download_results |->
                         Append(acc.download_results,
                                <<media_path,
                                  DownloadedPaths(media, media_path, youtube_urls,
                                                  downloadable)>>),
                      invoked |-> Append(acc.invoked, media_path)])

DownloadedAll(op, media, trailer_results, downloadable) ==
    LET done == DownloadAll(media, trailer_results, 1, downloadable, EmptyBatch)
    IN  /\ last' = [NoCall EXCEPT !.op = op, !.outcome = "ok",
                                   !.trailer_results = trailer_results,
                                   !.downloadable = downloadable,
                                   !.download_results = done.download_results,
                                   !.invoked = done.invoked]
        /\ calls' = calls + 1
        /\ UNCHANGED <<fs, fsEpoch, now, scanners, disk, cacheit>>

\* YoutubeTrailerScraper.download_trailers_for_movies
download_trailers_for_movies(trailer_results, downloadable) ==
    DownloadedAll("download_trailers_for_movies", "movie", trailer_results,
                  downloadable)

\* YoutubeTrailerScraper.download_trailers_for_tvshows
download_trailers_for_tvshows(trailer_results, downloadable) ==
    DownloadedAll("download_trailers_for_tvshows", "tvshow", trailer_results,
                  downloadable)

BatchUrlLists == RunUrlLists \cup {<<"">>}

\* The dicts over the two media directories.
TrailerResults ==
    {<<>>}
    \cup { <<<<media_path, urls>>>> :
              media_path \in {MoviePath, OtherMoviePath}, urls \in BatchUrlLists }
    \cup { <<<<first, urls>>, <<second, more>>>> :
              first \in {MoviePath, OtherMoviePath},
              second \in {MoviePath, OtherMoviePath},
              urls \in BatchUrlLists, more \in BatchUrlLists }

(***************************************************************************)
(* main.py: the search and download phases of a command line run.          *)
(***************************************************************************)
ShowPath == <<PathB, <<"d", "1">>>>

OtherShowPath == <<PathB, <<"d", "3">>>>

\* The lists of at most two different paths.
MissingLists(pool) ==
    {<<>>} \cup { <<media_path>> : media_path \in pool }
           \cup { pair \in pool \X pool : pair[1] # pair[2] }

\* What the TMDB search finds for a directory.
SearchAnswers == { <<>>, <<"https://youtube.com/watch?v=1">> }

RECURSIVE search_trailers(_, _, _)
\* YoutubeTrailerScraper.search_trailers_for_movies / _for_tvshows: every
\* path gets an entry, results[movie_path] = youtube_urls.
search_trailers(media_paths, answer, n) ==
    IF n > Len(media_paths) THEN <<>>
    ELSE <<<<media_paths[n], answer[media_paths[n]]>>>>
         \o search_trailers(media_paths, answer, n + 1)

\* sum(1 for urls in results.values() if urls)
items_found(results) ==
    Cardinality({n \in DOMAIN results : results[n][2] # <<>>})

\* _search_movies_on_tmdb / _search_tvshows_on_tmdb
_search_on_tmdb(without_trailers, answer) ==
    IF without_trailers = <<>> THEN [results |-> <<>>, found |-> 0]
    ELSE LET results == search_trailers(without_trailers, answer, 1)
         IN  [results |-> results, found |-> items_found(results)]

\* if movie_results or tvshow_results
EntersDownload(movie_results, tvshow_results) ==
    movie_results # <<>> \/ tvshow_results # <<>>

\* _main from the scan results on (lines 439-455)
_main(movies_without_trailers, tvshows_without_trailers, answer) ==
    LET movies == _search_on_tmdb(movies_without_trailers, answer)
        tvshows == _search_on_tmdb(tvshows_without_trailers, answer)
        searched == movies_without_trailers # <<>> \/ tvshows_without_trailers # <<>>
        enters == searched /\ EntersDownload(movies.results, tvshows.results)
    IN  /\ last' = [NoCall EXCEPT
                      !.op = "_main", !.outcome = "ok",
                      !.movies_without_trailers = movies_without_trailers,
                      !.tvshows_without_trailers = tvshows_without_trailers,
                      !.movie_results = IF searched THEN movies.results ELSE <<>>,
                      !.tvshow_results = IF searched THEN tvshows.results ELSE <<>>,
                      !.total_found = IF searched THEN movies.found + tvshows.found
                                      ELSE 0,
                      !.download_phase = enters,
                      !.reported = IF searched /\ ~enters
                                   THEN {"No trailers found to download."}
                                   ELSE {}]
        /\ calls' = calls + 1
        /\ UNCHANGED <<fs, fsEpoch, now, scanners, disk, cacheit>>

(***************************************************************************)
(* YoutubeTrailerScraper.__init__ and _load_environment_variables: the SMB *)
(* mount settings.  Environment values and paths are sequences of          *)
(* characters here.                                                        *)
(***************************************************************************)
\* A variable the environment does not hold: os.getenv gives the default.
NotSet == <<"(not set)">>

\* self._get_env_var(key, default=default): os.getenv(key, default)
_get_env_var(env, key, default) ==
    IF env[key] = NotSet THEN default ELSE env[key]

RECURSIVE LStripSlash(_)
\* str.lstrip("/")
LStripSlash(path_str) ==
    IF path_str # <<>> /\ Head(path_str) = "/" THEN LStripSlash(Tail(path_str))
    ELSE path_str

\* smb_prefix / path_str for a relative path_str (pathlib joins with one
\* separator, and joining nothing leaves the prefix)
JoinPath(smb_prefix, path_str) ==
    IF path_str = <<>> THEN smb_prefix
    ELSE IF smb_prefix[Len(smb_prefix)] = "/" THEN smb_prefix \o path_str
    ELSE smb_prefix \o <<"/">> \o path_str

\* YoutubeTrailerScraper._apply_smb_prefix
_apply_smb_prefix(smb_mount_point, paths) ==
    [n \in 1..Len(paths) |-> JoinPath(smb_mount_point, LStripSlash(paths[n]))]

\* self.use_smb_mount = use_smb (line 68); if use_smb_env:
\* self.use_smb_mount = True (lines 132-133)
UseSmbMount(use_smb, use_smb_env) ==
    IF use_smb_env THEN TRUE ELSE use_smb

\* YoutubeTrailerScraper(use_smb=use_smb) in the environment env, whose
\* MOVIES_PATHS parses to movies_paths_raw.
YoutubeTrailerScraper_init(use_smb, env, movies_paths_raw) ==
    LET smb_mount_point == _get_env_var(env, "SMB_MOUNT_POINT", <<>>)
        use_smb_env ==
            Lower(_get_env_var(env, "USE_SMB_MOUNT", <<"f", "a", "l", "s", "e">>))
                = <<"t", "r", "u", "e">>
        use_smb_mount == UseSmbMount(use_smb, use_smb_env)
    IN  /\ last' = [NoCall EXCEPT
                      !.op = "YoutubeTrailerScraper", !.outcome = "ok",
                      !.use_smb = use_smb, !.env = env,
                      !.use_smb_mount = use_smb_mount,
                      !.smb_mount_point = smb_mount_point,
                      !.movies_paths_raw = movies_paths_raw,
                      !.movies_paths =
                          IF use_smb_mount /\ smb_mount_point # <<>>
                          THEN _apply_smb_prefix(smb_mount_point, movies_paths_raw)
                          ELSE movies_paths_raw]
        /\ calls' = calls + 1
        /\ UNCHANGED <<fs, fsEpoch, now, scanners, disk, cacheit>>

\* The values of USE_SMB_MOUNT and SMB_MOUNT_POINT tried.
UseSmbValues ==
    { NotSet, <<>>, <<"t", "r", "u", "e">>, <<"T", "r", "u", "e">>,
      <<"T", "R", "U", "E">>, <<"f", "a", "l", "s", "e">>,
      <<"F", "a", "l", "s", "e">>, <<"1">> }

MountPointValues == { NotSet, <<>>, <<"/", "s">> }

Environments ==
    [USE_SMB_MOUNT : UseSmbValues, SMB_MOUNT_POINT : MountPointValues]

\* What MOVIES_PATHS parses to.
RawPathLists ==
    { << <<"/", "a">> >>, << <<"/", "a">>, <<"/", "b">> >>, << <<"a">> >> }

(***************************************************************************)
(* fix_trailer_extensions.py: the renames planned by scan_directories and  *)
(* applied by rename_files.  The script keeps the pairs in a list; the     *)
(* targets all end in ".mp4" and the sources never do, so no target is a   *)
(* source and the order of the renames does not change what is left on     *)
(* disk: the pairs are kept as a set here.                                 *)
(***************************************************************************)
MP4 == <<".", "m", "p", "4">>

\* pathlib.PurePath.with_suffix: the suffix of the name is replaced, and a
\* name without suffix gets it appended.
with_suffix(name, suffix) ==
    SubSeq(name, 1, Len(name) - Len(Suffix(name))) \o suffix

is_movie_directory(directory) ==
    IF ~directory.readable THEN FALSE
    ELSE \E f \in directory.entries :
            /\ ~f.isDir
            /\ Lower(Suffix(f.name)) \in VIDEO_EXTENSIONS

find_trailers_without_extension(movie_dir) ==
    IF ~movie_dir.readable THEN {}
    ELSE { file_path \in movie_dir.entries :
              /\ ~file_path.isDir
              /\ Contains(Lower(file_path.name), TRAILER)
              /\ Lower(Suffix(file_path.name)) # MP4 }

\* The pairs scan_directories plans for the movie folder `item` of base_path.
PlannedIn(base_path, item) ==
    IF ~item.isDir \/ ~is_movie_directory(item) THEN {}
    ELSE { << <<base_path, item.name, trailer_path.name>>,
              <<base_path, item.name, with_suffix(trailer_path.name, MP4)>> >> :
              trailer_path \in find_trailers_without_extension(item) }

\* fix_trailer_extensions.scan_directories
Fix_scan_directories(tree, paths) ==
    UNION { IF ~exists(tree, paths[j]) \/ ~is_dir(tree, paths[j])
               \/ ~listable(tree, paths[j])
            THEN {}
            ELSE UNION { PlannedIn(paths[j], tree[paths[j]].children[i]) :
                            i \in 1..Len(tree[paths[j]].children) } :
            j \in 1..Len(paths) }

\* old_path.rename(new_path) as os.rename does it on POSIX: a file that is
\* at new_path is replaced silently, a directory there makes it fail.
RenameFails(item, pair) ==
    \E n \in item.entries : n.isDir /\ n.name = pair[2][3]

\* The movie folder `item` of base_path after the renames of `pairs`.
Renamed(base_path, item, pairs) ==
    LET mine == { pair \in pairs :
                     /\ pair[1][1] = base_path
                     /\ pair[1][2] = item.name
                     /\ item.isDir
                     /\ ~RenameFails(item, pair) }
    IN  IF mine = {} THEN item
        ELSE [item EXCEPT !.entries =
                 (@ \ { File(pair[1][3]) : pair \in mine })
                    \cup { File(pair[2][3]) : pair \in mine }]

\* fix_trailer_extensions.rename_files: the tree it leaves and its count.
rename_files(tree, files_to_rename, dry_run) ==
    IF dry_run
    THEN [tree |-> tree, renamed_count |-> Cardinality(files_to_rename)]
    ELSE [tree |-> [root \in DOMAIN tree |->
                       [tree[root] EXCEPT !.children =
                           [i \in 1..Len(@) |-> Renamed(root, @[i], files_to_rename)]]],
          renamed_count |->
              Cardinality({ pair \in files_to_rename :
                               \A i \in 1..Len(tree[pair[1][1]].children) :
                                  LET item == tree[pair[1][1]].children[i]
                                  IN  item.name = pair[1][2]
                                      => ~RenameFails(item, pair) })]

\* main(): python fix_trailer_extensions.py paths [--dry-run]
Fix_main(paths, dry_run) ==
    LET files_to_rename == Fix_scan_directories(fs, paths)
        done == rename_files(fs, files_to_rename, dry_run)
    IN  /\ fs' = IF files_to_rename = {} THEN fs ELSE done.tree
        /\ fsEpoch' = IF fs' = fs THEN fsEpoch ELSE fsEpoch + 1
        /\ last' = [NoCall EXCEPT
                      !.op = "fix_trailer_extensions", !.outcome = "ok",
                      !.paths = paths, !.dry_run = dry_run,
                      !.files_to_rename = files_to_rename,
                      !.renamed_count = IF files_to_rename = {} THEN 0
                                        ELSE done.renamed_count,
                      !.before = fs]
        /\ calls' = calls + 1
        /\ UNCHANGED <<now, scanners, disk, cacheit>>

\* What a movie folder can hold besides the movie: trailers saved with and
\* without extension, under plain names and under the name of a movie that
\* has a dot in its title.
FixFiles ==
    { MovieFile,
      File(<<"t", "-", "t", "r", "a", "i", "l", "e", "r">>),
      File(<<"t", "-", "t", "r", "a", "i", "l", "e", "r", ".", "m", "p", "4">>),
      File(<<"t", "-", "t", "r", "a", "i", "l", "e", "r", ".", "m", "k", "v">>),
      File(<<"M", ".", "N", "-", "T", "r", "a", "i", "l", "e", "r">>),
      File(<<"M", ".", "m", "p", "4">>),
      Dir(<<"t", "-", "t", "r", "a", "i", "l", "e", "r", ".", "m", "p", "4">>, {}) }

\* A directory holds one node per name.
FixFolders ==
    { entries \in SUBSET FixFiles :
         \A m, n \in entries : m.name = n.name => m = n }

(***************************************************************************)
(* TMDBSearchEngine._make_request: the retry loop.                         *)
(***************************************************************************)
EmptyRequest ==
    [outcome |-> "none", requests |-> 0, sleeps |-> 0, response |-> 0, error |-> 0]

RECURSIVE MakeRequest(_, _, _, _)
\* for attempt in range(self.max_retries)
MakeRequest(max_retries, pattern, attempt, acc) ==
    IF attempt >= max_retries
    THEN [acc EXCEPT !.outcome = "returned"]          \* line 147: return {}
    ELSE LET sent == [acc EXCEPT !.requests = @ + 1]
         IN  IF pattern[attempt + 1]
             THEN [sent EXCEPT !.outcome = "returned", !.response = attempt + 1]
             ELSE IF attempt = max_retries - 1
             THEN [sent EXCEPT !.outcome = "raised", !.error = attempt + 1]
             ELSE MakeRequest(max_retries, pattern, attempt + 1,
                              [sent EXCEPT !.sleeps = @ + 1])

\* TMDBSearchEngine(max_retries=...)._make_request(endpoint, params), with
\* the requests succeeding or failing as `pattern` says.
_make_request(max_retries, pattern) ==
    LET done == MakeRequest(max_retries, pattern, 0, EmptyRequest)
    IN  /\ last' = [NoCall EXCEPT !.op = "_make_request",
                                   !.max_retries = max_retries,
                                   !.answers = pattern,
                                   !.outcome = done.outcome,
                                   !.requests = done.requests,
                                   !.sleeps = done.sleeps,
                                   !.response = done.response,
                                   !.error = done.error]
        /\ calls' = calls + 1
        /\ UNCHANGED <<fs, fsEpoch, now, scanners, disk, cacheit>>

\* Which of the next MaxRetries + 1 requests succeed.
FailurePatterns == [1..(MaxRetries + 1) -> BOOLEAN]

(***************************************************************************)
(* Specifications.  Spec exercises FileSystemScanner, SpecFind the movie   *)
(* and TV show scanners behind CacheIt, SpecAll all of them together.      *)
(***************************************************************************)
Environment ==
    \/ Tick
    \/ \E root \in Roots, kind \in RootKinds : SetRootKind(root, kind)

LibraryGrows ==
    \/ \E root \in Roots, entries \in {MovieNoTrailer, ShowNoTrailer} :
          AddChild(root, entries)
    \/ \E root \in Roots, i \in 1..MaxChildren : AddMovieTrailer(root, i)
    \/ \E root \in Roots, i \in 1..MaxChildren : AddShowTrailer(root, i)

FileSystemScanner ==
    \/ \E cache_ttl \in TTLChoices, cache_dir \in CacheDirs :
          NewScanner(cache_ttl, cache_dir)
    \/ /\ calls < MaxCalls
       /\ \E self \in 1..Len(scanners), paths \in PathLists,
             filter \in FilterChoices, max_results \in MaxResultsChoices :
             scan_directories(self, paths, filter[1], filter[2], max_results)
    \/ \E self \in 1..Len(scanners) : clear_cache(self)

Scanners ==
    \/ /\ calls < MaxCalls
       /\ \E paths \in PathLists, sample_size \in SampleSizes :
             Movie_find_missing_trailers(paths, sample_size)
    \/ /\ calls < MaxCalls
       /\ \E paths \in PathLists, sample_size \in SampleSizes :
             TV_find_missing_trailers(paths, sample_size)
    \/ Scraper_clear_cache

Next ==
    \/ Environment
    \/ \E root \in Roots : AddChild(root, MovieNoTrailer)
    \/ FileSystemScanner

Spec == Init /\ [][Next]_vars

NextFind ==
    \/ Environment
    \/ LibraryGrows
    \/ Scanners

SpecFind == Init /\ [][NextFind]_vars

NextAll ==
    \/ \E root \in Roots, kind \in RootKinds : SetRootKind(root, kind)
    \/ LibraryGrows
    \/ /\ calls < MaxCallsAll
       /\ \/ FileSystemScanner
          \/ Scanners

SpecAll == Init /\ [][NextAll]_vars

(***************************************************************************)
(* _create_cache_key on its own: the keys of two successive calls.         *)
(***************************************************************************)
\* Roots as str(p) gives them; "|" may occur in a file name.
PathStrings == {PathA, PathB, <<"a", "|", "b">>}

RECURSIVE ListsUpTo(_, _)
\* The lists of at most n members of pool.
ListsUpTo(pool, n) ==
    IF n = 0 THEN {<<>>}
    ELSE LET shorter == ListsUpTo(pool, n - 1)
         IN  shorter \cup {Append(l, x) : l \in shorter, x \in pool}

FilterNames == {MOVIE_FILTER, TVSHOW_FILTER}

Call_create_cache_key(paths, filter_name) ==
    /\ calls < 2
    /\ calls' = calls + 1
    /\ last' = [NoCall EXCEPT
                  !.op = "_create_cache_key",
                  !.paths = paths, !.filter_name = filter_name,
                  !.key = _create_cache_key(paths, filter_name),
                  !.prev_paths = last.paths,
                  !.prev_filter_name = last.filter_name,
                  !.prev_key = last.key]
    /\ UNCHANGED <<fs, fsEpoch, now, scanners, disk, cacheit>>

NextKey ==
    \E paths \in ListsUpTo(PathStrings, MaxRoots), filter_name \in FilterNames :
        Call_create_cache_key(paths, filter_name)

SpecKey == Init /\ [][NextKey]_vars

(***************************************************************************)
(* Two scan_directories calls with the predicates the scanner offers, by   *)
(* scanners of either extension set, on a tree that does not change.       *)
(***************************************************************************)
\* The default of the filter_name parameter.
DEFAULT_FILTER_NAME == <<"c", "u", "s", "t", "o", "m">>

FilterNameChoices == {DEFAULT_FILTER_NAME, MOVIE_FILTER}

RootChoices == {<<PathA>>, <<PathB>>, <<PathA, PathB>>}

NextFilters ==
    \/ Tick
    \/ \E video_extensions \in ExtensionChoices, cache_dir \in CacheDirs :
          NewScannerWith(video_extensions, DEFAULT_CACHE_TTL, cache_dir)
    \/ /\ calls < 2
       /\ \E self \in 1..Len(scanners), paths \in RootChoices,
             filter_func \in FilterFuncs, filter_name \in FilterNameChoices :
             scan_directories(self, paths, filter_func, filter_name, NoLimit)
    \/ \E self \in 1..Len(scanners) : clear_cache(self)

SpecFilters == Init /\ [][NextFilters]_vars

(***************************************************************************)
(* FileSystemScanner started while the second library root is not          *)
(* available (a share that is not mounted, or not readable).               *)
(***************************************************************************)
InitOutage ==
    /\ \E kind \in {"missing", "denied"} :
          fs = [InitialTree EXCEPT ![PathB].kind = kind]
    /\ fsEpoch = 0
    /\ now = 0
    /\ scanners = <<FileSystemScanner_init(DEFAULT_CACHE_TTL, DEFAULT_CACHE_DIR)>>
    /\ disk = [d \in CacheDirs |-> EmptyCache]
    /\ cacheit = EmptyCache
    /\ calls = 0
    /\ last = NoCall

NextOutage ==
    \/ Environment
    \/ /\ calls < MaxCalls
       /\ \E self \in 1..Len(scanners), paths \in PathLists,
             filter \in FilterChoices, max_results \in MaxResultsChoices :
             scan_directories(self, paths, filter[1], filter[2], max_results)
    \/ \E self \in 1..Len(scanners) : clear_cache(self)

SpecOutage == InitOutage /\ [][NextOutage]_vars

\* A run of the program on the library: scans, downloads for the movies of
\* the first root and the shows of the second, cache clears, as time passes.
RunDownloads ==
    \/ \E i \in 1..Len(fs[PathA].children), youtube_urls \in RunUrlLists,
          downloadable \in RunDownloadable, suffix \in SavedSuffixes :
          /\ Movie_has_video_files(fs[PathA].children[i])
          /\ DownloadInto("download_trailers_for_movie", "movie", PathA, i,
                          youtube_urls, downloadable, suffix)
    \/ \E i \in 1..Len(fs[PathB].children), youtube_urls \in RunUrlLists,
          downloadable \in RunDownloadable, suffix \in SavedSuffixes :
          /\ is_tvshow_directory(SEASON_PATTERN, fs[PathB].children[i])
          /\ DownloadInto("download_trailers_for_tvshow", "tvshow", PathB, i,
                          youtube_urls, downloadable, suffix)

NextRun ==
    \/ Tick
    \/ /\ calls < MaxCalls
       /\ Movie_find_missing_trailers(<<PathA>>, NoLimit)
    \/ /\ calls < MaxCalls
       /\ TV_find_missing_trailers(<<PathB>>, NoLimit)
    \/ /\ fsEpoch < MaxFsChanges
       /\ RunDownloads
    \/ Scraper_clear_cache

SpecRun == Init /\ [][NextRun]_vars

\* The downloader run again and again on the library.
NextRepeat == RunDownloads

SpecRepeat == Init /\ [][NextRepeat]_vars

\* One request of a TMDBSearchEngine.
NextRetry ==
    /\ calls = 0
    /\ \E max_retries \in 0..MaxRetries, pattern \in FailurePatterns :
          _make_request(max_retries, pattern)

SpecRetry == Init /\ [][NextRetry]_vars

\* One call of the orchestrator's downloads.
NextBatch ==
    /\ calls = 0
    /\ \/ \E trailer_results \in TrailerResults, downloadable \in RunDownloadable :
             /\ \A m, n \in DOMAIN trailer_results :
                   trailer_results[m][1] = trailer_results[n][1] => m = n
             /\ download_trailers_for_movies(trailer_results, downloadable)
       \/ \E trailer_results \in TrailerResults, downloadable \in RunDownloadable :
             /\ \A m, n \in DOMAIN trailer_results :
                   trailer_results[m][1] = trailer_results[n][1] => m = n
             /\ download_trailers_for_tvshows(trailer_results, downloadable)

SpecBatch == Init /\ [][NextBatch]_vars

\* One run of the command line, from the scan results on.
NextCli ==
    /\ calls = 0
    /\ \E movies_without_trailers \in MissingLists({MoviePath, OtherMoviePath}),
          tvshows_without_trailers \in MissingLists({ShowPath, OtherShowPath}),
          answer \in [{MoviePath, OtherMoviePath, ShowPath, OtherShowPath}
                         -> SearchAnswers] :
          _main(movies_without_trailers, tvshows_without_trailers, answer)

SpecCli == Init /\ [][NextCli]_vars

\* One construction of the orchestrator.
NextEnv ==
    /\ calls = 0
    /\ \E use_smb \in BOOLEAN, env \in Environments,
          movies_paths_raw \in RawPathLists :
          YoutubeTrailerScraper_init(use_smb, env, movies_paths_raw)

SpecEnv == Init /\ [][NextEnv]_vars

\* One run of fix_trailer_extensions.py on a library whose first movie
\* folder holds any of the files above.
InitFix ==
    /\ \E entries \in FixFolders :
          fs = [InitialTree EXCEPT ![PathA].children[1] = ChildDir(1, entries)]
    /\ fsEpoch = 0
    /\ now = 0
    /\ scanners = <<FileSystemScanner_init(DEFAULT_CACHE_TTL, DEFAULT_CACHE_DIR)>>
    /\ disk = [d \in CacheDirs |-> EmptyCache]
    /\ cacheit = EmptyCache
    /\ calls = 0
    /\ last = NoCall

NextFix ==
    /\ calls = 0
    /\ \E paths \in {<<PathA>>, <<PathA, PathB>>}, dry_run \in BOOLEAN :
          Fix_main(paths, dry_run)

SpecFix == InitFix /\ [][NextFix]_vars

\* FileSystemScanner with scan_directories taken step by step.
NextSteps ==
    \/ Tick
    \/ \E root \in Roots : AddChild(root, MovieNoTrailer)
    \/ /\ calls < MaxCalls
       /\ \E self \in 1..Len(scanners), paths \in PathLists,
             filter \in FilterChoices, max_results \in MaxResultsChoices :
             scan_lookup(self, paths, filter[1], filter[2], max_results)
    \/ scan_root
    \/ scan_store
    \/ /\ ~Scanning
       /\ \E self \in 1..Len(scanners) : clear_cache(self)

SpecSteps == Init /\ [][NextSteps]_vars

\* The scanners as the orchestrator drives them.
NextScraper ==
    \/ LibraryGrows
    \/ /\ calls < MaxCalls
       /\ \E self \in ScraperConfigs, use_sample \in BOOLEAN :
             scan_for_movies_without_trailers(self, use_sample)
    \/ /\ calls < MaxCalls
       /\ \E self \in ScraperConfigs, use_sample \in BOOLEAN :
             scan_for_tvshows_without_trailers(self, use_sample)
    \/ Scraper_clear_cache

SpecScraper == Init /\ [][NextScraper]_vars

\* The downloader keeps no state between calls: a behaviour makes one call.
NextDownload ==
    /\ calls = 0
    /\ \/ \E youtube_urls \in UrlLists(MaxUrls),
             existing \in UpTo(OutputFiles("movie", MoviePath), 1),
             downloadable \in SUBSET (UrlPool \ {""}) :
             download_trailers_for_movie(MoviePath, youtube_urls, existing,
                                         downloadable)
       \/ \E youtube_urls \in UrlLists(MaxUrls),
             existing \in UpTo(OutputFiles("tvshow", MoviePath), 1),
             downloadable \in SUBSET (UrlPool \ {""}) :
             download_trailers_for_tvshow(MoviePath, youtube_urls, existing,
                                          downloadable)

SpecDownload == Init /\ [][NextDownload]_vars

\* The sample mode scenario: a root holding ten movie directories, none
\* with a trailer, scanned with and without SCAN_SAMPLE_SIZE while trailers
\* get downloaded.
TenMovies == [i \in 1..TEN_MOVIES |-> ChildDir(i, MovieNoTrailer)]

InitSample ==
    /\ fs = [root \in Roots |->
                [kind |-> "dir",
                 children |-> IF root = PathA THEN TenMovies ELSE <<>>]]
    /\ fsEpoch = 0
    /\ now = 0
    /\ scanners = <<FileSystemScanner_init(DEFAULT_CACHE_TTL, DEFAULT_CACHE_DIR)>>
    /\ disk = [d \in CacheDirs |-> EmptyCache]
    /\ cacheit = EmptyCache
    /\ calls = 0
    /\ last = NoCall

NextSample ==
    \/ Tick
    \/ \E i \in 1..TEN_MOVIES : AddMovieTrailer(PathA, i)
    \/ /\ calls < MaxCalls
       /\ \E sample_size \in {0, SCAN_SAMPLE_SIZE} :
             Movie_find_missing_trailers(<<PathA>>, sample_size)
    \/ Scraper_clear_cache

SpecSample == InitSample /\ [][NextSample]_vars

\* The predicates keep no state: a behaviour applies one of them once.
NextClassify ==
    /\ calls = 0
    /\ \/ \E directory \in Directories(FilePool) :
             Call_Movie_has_video_files(directory)
       \/ \E video_extensions \in ExtensionChoices,
             directory \in Directories(FilePool) :
             Call_has_video_files(video_extensions, directory)
       \/ \E movie_dir \in Directories(FilePool) :
             Call_Movie_has_trailer(movie_dir)
       \/ \E season_pattern \in SeasonPatternChoices,
             directory \in Directories(SubdirPool) :
             Call_is_tvshow_directory(season_pattern, directory)

SpecClassify == Init /\ [][NextClassify]_vars

TypeOK ==
    /\ now \in Nat
    /\ calls \in 0..MaxCalls
    /\ fsEpoch \in 0..MaxFsChanges

(***************************************************************************)
(* Vocabulary of the properties.                                           *)
(***************************************************************************)
FindOps == {"Movie_find_missing_trailers", "TV_find_missing_trailers"}

ScanOps == FindOps \cup {"scan_directories"}

\* The step is a call of one of the scan operations.
IsCallStep == calls' = calls + 1

\* The CacheIt key of a find_missing_trailers call.
FindKey(call) ==
    CacheItKey(IF call.op = "Movie_find_missing_trailers"
               THEN "MovieScanner.find_missing_trailers"
               ELSE "TVShowScanner.find_missing_trailers",
               call.paths, call.limit)

\* What the body of the called operation computes on `tree` for these roots.
Traverse(call, tree, paths) ==
    IF call.op = "Movie_find_missing_trailers"
    THEN LET found == MoviePaths(tree, paths, 1, call.limit, EmptyFind)
         IN  [result |-> found.missing, listed |-> found.listed]
    ELSE IF call.op = "TV_find_missing_trailers"
    THEN LET found == TVPaths(tree, paths, 1, call.limit, SEASON_PATTERN,
                              TRAILERS_SUBDIR, EmptyFind)
         IN  [result |-> found.missing, listed |-> found.listed]
    ELSE LET scan == ScanPaths(tree, paths, 1, call.filter_func,
                               scanners[call.scanner].video_extensions,
                               call.limit, EmptyScan)
         IN  [result |-> scan.dirs, listed |-> scan.listed]

Unlimited(call) == [call EXCEPT !.limit = NoLimit]

\* The position of a root in the list of roots of a call.
IndexOf(paths, root) == CHOOSE i \in 1..Len(paths) : paths[i] = root

\* The position of a child among the children of its root.
ChildIndex(tree, path) ==
    CHOOSE i \in 1..Len(tree[path[1]].children) :
        tree[path[1]].children[i].name = path[2]

(***************************************************************************)
(* C1.  With the directory tree unchanged, a find_missing_trailers call    *)
(* that repeats the previous one (same roots, same sample size) within     *)
(* the 24 h window returns the same list, is a cache hit and lists no      *)
(* directory.                                                              *)
(***************************************************************************)
C1_RepeatedFindIsCacheHit ==
    [][ ( /\ IsCallStep
          /\ last.op \in FindOps /\ last.outcome = "ok" /\ ~last.hit
          /\ last'.op = last.op
          /\ last'.paths = last.paths
          /\ last'.limit = last.limit
          /\ last.epoch = fsEpoch
          /\ now - Get(cacheit, FindKey(last)).time < CACHEIT_MAX_DURATION )
        => ( /\ last'.outcome = "ok"
             /\ last'.hit
             /\ last'.listed = <<>>
             /\ last'.result = last.result ) ]_vars

C1_Witness ==
    /\ last.op \in FindOps
    /\ last.hit
    /\ last.listed = <<>>
    /\ last.result # <<>>
    /\ last.result = Traverse(last, fs, last.paths).result
    /\ calls = 2
    /\ fsEpoch = 0
    /\ now > 0

(***************************************************************************)
(* C2.  The scan that follows clear_cache(), for a key that was cached     *)
(* when the cache was cleared, traverses the file system again and         *)
(* returns what the tree holds now.                                        *)
(***************************************************************************)
C2_ClearForcesRescan ==
    [][ ( /\ IsCallStep
          /\ last.op = "Scraper_clear_cache"
          /\ last'.op \in FindOps
          /\ FindKey(last') \in DOMAIN last.cleared )
        => ( /\ last'.outcome = "ok"
             /\ ~last'.hit
             /\ last'.result = Traverse(last', fs, last'.paths).result
             /\ last'.listed = Traverse(last', fs, last'.paths).listed ) ]_vars

C2_Witness ==
    /\ last.op \in FindOps
    /\ last.after_clear
    /\ ~last.hit
    /\ last.listed # <<>>
    /\ last.result # last.old
    /\ Len(last.result) < Len(last.old)

(***************************************************************************)
(* C3.  scan_directories serves a cache entry only while its age is below  *)
(* cache_ttl.  An entry found with age >= cache_ttl is a miss: the roots   *)
(* are scanned again and the key then holds a fresh entry with the new     *)
(* result.                                                                 *)
(***************************************************************************)
C3_ExpiredEntryNeverServed ==
    [][ ( IsCallStep /\ last'.op = "scan_directories" /\ last'.outcome = "ok" )
        => LET this == scanners[last'.scanner]
               key == _create_cache_key(last'.paths, last'.filter_name)
               entry == Get(disk[this.cache_dir], key)
               age == now - entry.time
           IN  /\ last'.hit => ( /\ entry # None
                                 /\ age < this.cache_ttl
                                 /\ last'.result = entry.data )
               /\ ( entry # None /\ age >= this.cache_ttl )
                  => ( /\ ~last'.hit
                       /\ last'.result = Traverse(last', fs, last'.paths).result
                       /\ last'.listed = Traverse(last', fs, last'.paths).listed
                       /\ Get(disk'[this.cache_dir], key) =
                             [data |-> last'.result, time |-> now] ) ]_vars

C3_Witness ==
    /\ last.op = "scan_directories"
    /\ last.stale
    /\ ~last.hit
    /\ last.listed # <<>>
    /\ last.result # <<>>

(***************************************************************************)
(* C4.  The cap of a scan_directories result is the one of the current     *)
(* call: with max_results = N >= 1 at most N paths are returned, and       *)
(* without max_results (on a tree that never changed) every matching       *)
(* directory is returned.                                                  *)
(***************************************************************************)
C4_CapOfCurrentCall ==
    ( last.op = "scan_directories" /\ last.outcome = "ok" )
    => /\ last.limit >= 1 => Len(last.result) <= last.limit
       /\ ( last.limit = NoLimit /\ fsEpoch = 0 )
          => last.result = Traverse(last, fs, last.paths).result

(***************************************************************************)
(* C5.  find_missing_trailers with sample_size = N > 0 returns at most N   *)
(* directories (movie and TV show scanner alike).                          *)
(***************************************************************************)
C5_SampleBoundsResult ==
    ( last.op \in FindOps /\ last.outcome = "ok" /\ last.limit > 0 )
    => Len(last.result) <= last.limit

C5_Witness ==
    /\ last.op \in FindOps
    /\ last.outcome = "ok"
    /\ ~last.hit
    /\ last.limit > 0
    /\ Len(last.result) = last.limit
    /\ last.epoch = fsEpoch
    /\ Len(Traverse(Unlimited(last), fs, last.paths).result) > last.limit

(***************************************************************************)
(* C6.  A scan operation called with an empty list of roots fails with     *)
(* ValueError; it never returns a list.                                    *)
(***************************************************************************)
C6_EmptyRootsRejected ==
    ( last.op \in ScanOps /\ last.paths = <<>> )
    => ( last.outcome = "ValueError" /\ last.result = <<>> /\ ~last.hit )

C6_Witness ==
    /\ last.op = "scan_directories"
    /\ last.paths = <<>>
    /\ last.outcome = "ValueError"

(***************************************************************************)
(* C7.  A root that is missing, is not a directory or cannot be listed     *)
(* never makes a scan operation fail: the traversal returns what the       *)
(* traversal of the remaining roots alone returns, so the root adds        *)
(* nothing and the roots after it are still scanned.                       *)
(***************************************************************************)
GoodRoots(tree, paths) == SelectSeq(paths, LAMBDA root : listable(tree, root))

C7_BadRootSkipped ==
    ( last.op \in ScanOps /\ last.paths # <<>> )
    => /\ last.outcome = "ok"
       /\ ( ~last.hit /\ last.epoch = fsEpoch )
          => /\ last.result = Traverse(last, fs, GoodRoots(fs, last.paths)).result
             /\ \A i \in 1..Len(last.result) : listable(fs, last.result[i][1])

C7_Witness ==
    /\ last.op \in ScanOps
    /\ last.outcome = "ok"
    /\ ~last.hit
    /\ last.epoch = fsEpoch
    /\ Len(last.paths) = 2
    /\ fs[last.paths[1]].kind = "denied"
    /\ last.result # <<>>

(***************************************************************************)
(* C8.  The list scan_directories returns is ordered root by root in the   *)
(* order the roots have in the call, and within a root in the order the    *)
(* file system enumerates the children.                                    *)
(***************************************************************************)
C8_OrderAsGiven ==
    ( last.op = "scan_directories" /\ last.outcome = "ok" )
    => \A i, j \in 1..Len(last.result) :
          i < j =>
             LET ri == last.result[i][1]
                 rj == last.result[j][1]
             IN  \/ IndexOf(last.paths, ri) < IndexOf(last.paths, rj)
                 \/ /\ ri = rj
                    /\ ChildIndex(fs, last.result[i]) < ChildIndex(fs, last.result[j])

(***************************************************************************)
(* C9.  While the entry under the key of a scan_directories call is        *)
(* younger than cache_ttl, the call returns the cached list without        *)
(* looking at the file system, whatever the tree holds by then.            *)
(***************************************************************************)
C9_FreshEntryServedUnchanged ==
    [][ ( IsCallStep /\ last'.op = "scan_directories" /\ last'.paths # <<>> )
        => LET this == scanners[last'.scanner]
               key == _create_cache_key(last'.paths, last'.filter_name)
               entry == Get(disk[this.cache_dir], key)
           IN  ( entry # None /\ now - entry.time < this.cache_ttl )
               => ( /\ last'.outcome = "ok"
                    /\ last'.hit
                    /\ last'.result = entry.data
                    /\ last'.listed = <<>>
                    /\ disk' = disk ) ]_vars

C9_Witness ==
    /\ last.op = "scan_directories"
    /\ last.hit
    /\ last.epoch = fsEpoch
    /\ fs # InitialTree
    /\ last.result = Traverse(last, InitialTree, last.paths).result
    /\ last.result # Traverse(last, fs, last.paths).result

(***************************************************************************)
(* C10.  A scan by another scanner instance that uses the cache directory  *)
(* and the key of the scan just made, within its cache_ttl, is a cache hit *)
(* and returns the list the earlier instance stored.                       *)
(***************************************************************************)
C10_EntryOutlivesInstance ==
    [][ ( /\ IsCallStep
          /\ last.op = "scan_directories" /\ last.outcome = "ok" /\ ~last.hit
          /\ last'.op = "scan_directories"
          /\ last'.scanner # last.scanner
          /\ scanners[last'.scanner].cache_dir = scanners[last.scanner].cache_dir
          /\ _create_cache_key(last'.paths, last'.filter_name)
                = _create_cache_key(last.paths, last.filter_name)
          /\ now - Get(disk[scanners[last.scanner].cache_dir],
                       _create_cache_key(last.paths, last.filter_name)).time
                < scanners[last'.scanner].cache_ttl )
        => ( /\ last'.outcome = "ok"
             /\ last'.hit
             /\ last'.result = last.result ) ]_vars

C10_Witness ==
    /\ last.op = "scan_directories"
    /\ last.hit
    /\ last.prev_scanner # 0
    /\ last.prev_scanner # last.scanner
    /\ calls = 2
    /\ now > 0
    /\ last.result # <<>>

(***************************************************************************)
(* Vocabulary of the classification properties: names compared letter by   *)
(* letter regardless of case.                                              *)
(***************************************************************************)
CasePairs ==
    { <<"a", "A">>, <<"b", "B">>, <<"c", "C">>, <<"d", "D">>, <<"e", "E">>,
      <<"f", "F">>, <<"g", "G">>, <<"h", "H">>, <<"i", "I">>, <<"j", "J">>,
      <<"k", "K">>, <<"l", "L">>, <<"m", "M">>, <<"n", "N">>, <<"o", "O">>,
      <<"p", "P">>, <<"q", "Q">>, <<"r", "R">>, <<"s", "S">>, <<"t", "T">>,
      <<"u", "U">>, <<"v", "V">>, <<"w", "W">>, <<"x", "X">>, <<"y", "Y">>,
      <<"z", "Z">> }

SameLetter(c, d) == c = d \/ <<c, d>> \in CasePairs \/ <<d, c>> \in CasePairs

EqualsNoCase(s, t) ==
    /\ Len(s) = Len(t)
    /\ \A i \in 1..Len(s) : SameLetter(s[i], t[i])

\* The name holds "trailer" at some position, in any case.
MentionsTrailer(name) ==
    \E i \in 1..(Len(name) - 6) :
        EqualsNoCase(SubSeq(name, i, i + 6), <<"t", "r", "a", "i", "l", "e", "r">>)

\* The name is a stem followed by one of the extensions, in any case.
HasExtensionOf(name, extensions) ==
    \E ext \in extensions :
        /\ Len(name) > Len(ext)
        /\ EqualsNoCase(SubSeq(name, Len(name) - Len(ext) + 1, Len(name)), ext)

HoldsVideo(directory, extensions) ==
    /\ directory.readable
    /\ \E f \in directory.entries : ~f.isDir /\ HasExtensionOf(f.name, extensions)

BeginsWith(name, prefix) ==
    /\ Len(name) >= Len(prefix)
    /\ EqualsNoCase(SubSeq(name, 1, Len(prefix)), prefix)

FiveExtensions ==
    { <<".", "m", "p", "4">>, <<".", "m", "k", "v">>, <<".", "a", "v", "i">>,
      <<".", "m", "4", "v">>, <<".", "m", "o", "v">> }

C12_TrailerBySubstring ==
    last.op = "MovieScanner.has_trailer"
    => ( last.verdict
         <=> /\ last.dir.readable
             /\ \E f \in last.dir.entries : ~f.isDir /\ MentionsTrailer(f.name) )

C12_Witness ==
    /\ last.op = "MovieScanner.has_trailer"
    /\ last.verdict
    /\ last.dir.entries =
          { File(<<"T", "R", "A", "I", "L", "E", "R">>),
            File(<<"p", "r", "e", "v", "i", "e", "w", ".", "m", "p", "4">>) }

MoviesOf(tree, root) ==
    SelectSeq(tree[root].children,
              LAMBDA item : item.isDir /\ HoldsVideo(item, FiveExtensions))

HoldsTrailer(item) ==
    \E f \in item.entries : ~f.isDir /\ MentionsTrailer(f.name)

FirstOf(seq, n) == SubSeq(seq, 1, IF Len(seq) < n THEN Len(seq) ELSE n)

\* A call in sample mode on the one root of the scenario, the tree being
\* still as the call found it.
SampleCall ==
    /\ last.op = "Movie_find_missing_trailers"
    /\ last.outcome = "ok"
    /\ last.limit = SCAN_SAMPLE_SIZE
    /\ last.paths = <<PathA>>
    /\ last.epoch = fsEpoch
    /\ Len(MoviesOf(fs, PathA)) >= TEN_MOVIES

(***************************************************************************)
(* C14 as claimed.  For a root holding ten movie directories,              *)
(* find_missing_trailers with sample_size = 3 returns exactly 3 paths.     *)
(***************************************************************************)
C14_TenMoviesSampleThree ==
    SampleCall => Len(last.result) = SCAN_SAMPLE_SIZE

(***************************************************************************)
(* C14 as amended.  For a root holding ten movie directories, a            *)
(* find_missing_trailers call with sample_size = 3 that scans the root     *)
(* returns the directories without a trailer among the first 3 movie       *)
(* directories enumerated: exactly 3 paths when none of these holds a      *)
(* trailer, fewer otherwise.                                               *)
(***************************************************************************)
C14_SampleOfFirstThree ==
    ( SampleCall /\ ~last.hit )
    => LET sample == FirstOf(MoviesOf(fs, PathA), SCAN_SAMPLE_SIZE)
           missing == SelectSeq(sample, LAMBDA item : ~HoldsTrailer(item))
       IN  /\ last.result = [k \in 1..Len(missing) |-> <<PathA, missing[k].name>>]
           /\ ( \A k \in 1..Len(sample) : ~HoldsTrailer(sample[k]) )
              => Len(last.result) = SCAN_SAMPLE_SIZE

C14_Witness ==
    /\ SampleCall
    /\ ~last.hit
    /\ fsEpoch > 0
    /\ Len(last.result) = SCAN_SAMPLE_SIZE
    /\ \E k \in 1..TEN_MOVIES : HoldsTrailer(fs[PathA].children[k])

(***************************************************************************)
(* C15.  scan_for_movies_without_trailers and                              *)
(* scan_for_tvshows_without_trailers, when the configured list of roots is *)
(* empty, return an empty list: nothing is raised, no scanner is invoked   *)
(* and the caches are left as they are.                                    *)
(***************************************************************************)
ScraperOps ==
    {"scan_for_movies_without_trailers", "scan_for_tvshows_without_trailers"}

C15_NoRootsNoScan ==
    [][ ( IsCallStep /\ last'.paths = <<>> )
        => ( /\ last'.op \in ScraperOps
             /\ last'.outcome = "ok"
             /\ last'.result = <<>>
             /\ last'.listed = <<>>
             /\ cacheit' = cacheit
             /\ disk' = disk ) ]_vars

C15_Witness ==
    /\ last.op = "scan_for_tvshows_without_trailers"
    /\ last.paths = <<>>
    /\ last.outcome = "ok"
    /\ last.result = <<>>
    /\ calls = 2
    /\ cacheit # EmptyCache

(***************************************************************************)
(* C16.  download_trailers_for_movie and download_trailers_for_tvshow      *)
(* hand only the first MAX_TRAILERS_PER_MEDIA (3) URLs of the list to      *)
(* download(), in order, and run yt-dlp for no other; they return at most  *)
(* 3 paths: the files trailer #1..#3 of the URLs whose download gave a     *)
(* file, in the order of the URLs.                                         *)
(***************************************************************************)
DownloadOps == {"download_trailers_for_movie", "download_trailers_for_tvshow"}

Media(call) == IF call.op = "download_trailers_for_movie" THEN "movie" ELSE "tvshow"

\* The file of the idx-th trailer of the media directory of a call.
TrailerNumber(call, idx) ==
    << TrailerDir(Media(call), call.paths[1]),
       IF Media(call) = "movie"
       THEN <<call.paths[1][Len(call.paths[1])], " - trailer #", idx, " -trailer", ".mp4">>
       ELSE <<"trailer #", idx, ".mp4">> >>

\* The idx-th URL of a call leaves its file in place.
GivesFile(call, idx) ==
    /\ call.urls[idx] # ""
    /\ \/ TrailerNumber(call, idx) \in call.existing
       \/ call.urls[idx] \in call.downloadable

C16_AtMostThreeTrailers ==
    last.op \in DownloadOps
    => LET n == IF Len(last.urls) < 3 THEN Len(last.urls) ELSE 3
           given == {idx \in 1..n : GivesFile(last, idx)}
       IN  /\ last.attempts = SubSeq(last.urls, 1, n)
           /\ Len(last.fetched) <= 3
           /\ \A k \in 1..Len(last.fetched) :
                 \E idx \in 1..n : last.fetched[k] = last.urls[idx]
           /\ Len(last.result) <= 3
           /\ Len(last.result) = Cardinality(given)
           /\ \A idx \in given :
                 \E k \in 1..Len(last.result) : last.result[k] = TrailerNumber(last, idx)
           /\ \A j, k \in 1..Len(last.result) :
                 j < k =>
                    \E a, b \in given :
                       /\ a < b
                       /\ last.result[j] = TrailerNumber(last, a)
                       /\ last.result[k] = TrailerNumber(last, b)

C16_Witness ==
    /\ last.op = "download_trailers_for_movie"
    /\ Len(last.urls) = 4
    /\ \A idx \in 1..4 : last.urls[idx] \in last.downloadable
    /\ last.existing = {}
    /\ Len(last.result) = 3
    /\ Len(last.fetched) = 3

(***************************************************************************)
(* C17.  A find_missing_trailers call that scans (cold cache) returns what *)
(* scan_directories over the same roots, with the scanner's classifier as  *)
(* predicate and max_results = sample_size, returns on a cold cache, less  *)
(* the directories that hold a trailer.                                    *)
(***************************************************************************)
\* The directory a returned path names.
NodeAt(tree, path) == tree[path[1]].children[ChildIndex(tree, path)]

Classifier(call) ==
    IF call.op = "Movie_find_missing_trailers"
    THEN "MovieScanner._has_video_files"
    ELSE "TVShowScanner._is_tvshow_directory"

Candidates(call, tree) ==
    ScanPaths(tree, call.paths, 1, Classifier(call), VIDEO_EXTENSIONS,
              call.limit, EmptyScan).dirs

WithoutTrailer(call, tree, dirs) ==
    SelectSeq(dirs,
              LAMBDA path :
                 IF call.op = "Movie_find_missing_trailers"
                 THEN ~Movie_has_trailer(NodeAt(tree, path))
                 ELSE ~TV_has_trailer(TRAILERS_SUBDIR, NodeAt(tree, path)))

C17_FindIsScanThenFilter ==
    ( last.op \in FindOps /\ last.outcome = "ok" /\ ~last.hit
      /\ last.epoch = fsEpoch )
    => last.result = WithoutTrailer(last, fs, Candidates(last, fs))

C17_Witness ==
    /\ last.op = "TV_find_missing_trailers"
    /\ last.outcome = "ok"
    /\ ~last.hit
    /\ last.epoch = fsEpoch
    /\ last.limit >= 1
    /\ Len(Candidates(last, fs)) = last.limit
    /\ Len(last.result) < last.limit
    /\ Len(Traverse(Unlimited(last), fs, last.paths).result) > 0

(***************************************************************************)
(* C18.  A scan_directories traversal with max_results = N >= 1 that       *)
(* reaches N matches stops there: the N-th match is the last child the     *)
(* predicate was applied to, and its root is the last root validated and   *)
(* the last root listed.                                                   *)
(***************************************************************************)
Last(seq) == seq[Len(seq)]

C18_StopsAtMaxResults ==
    ( last.op = "scan_directories" /\ last.outcome = "ok" /\ ~last.hit
      /\ last.limit >= 1 /\ Len(last.result) >= last.limit )
    => /\ Len(last.result) = last.limit
       /\ Last(last.probed) = Last(last.result)
       /\ Last(last.listed) = Last(last.result)[1]
       /\ Last(last.validated) = Last(last.result)[1]

C18_Witness ==
    /\ last.op = "scan_directories"
    /\ last.outcome = "ok"
    /\ ~last.hit
    /\ last.limit = 1
    /\ last.epoch = fsEpoch
    /\ Len(last.paths) = 2
    /\ last.validated = <<last.paths[1]>>
    /\ last.probed = <<last.result[1]>>
    /\ Len(Traverse(Unlimited(last), fs, last.paths).result) > 2

(***************************************************************************)
(* C19.  In a scan_directories call the cache is looked up before any      *)
(* root is validated or listed; a call that fails with ValueError and a    *)
(* cache hit leave the store as it is; while the roots are traversed       *)
(* nothing is stored; the one entry of the call is written when the        *)
(* traversal has ended and holds the complete result.                      *)
(***************************************************************************)
StoreOf(call) == scanners[call.scanner].cache_dir

KeyOf(call) == _create_cache_key(call.paths, call.filter_name)

Untouched(call) ==
    call.validated = <<>> /\ call.listed = <<>> /\ call.probed = <<>>

C19_WriteOnlyAfterScan ==
    [][ /\ ( IsCallStep /\ last'.op = "scan_directories" )
           => /\ Untouched(last')
              /\ last'.outcome = "ValueError" => disk' = disk
              /\ last'.hit => disk' = disk
              /\ last'.outcome = "scanning"
                 => /\ KeyOf(last') \notin DOMAIN disk'[StoreOf(last')]
                    /\ \A d \in DOMAIN disk : \A k \in DOMAIN disk'[d] :
                          k \in DOMAIN disk[d] /\ disk'[d][k] = disk[d][k]
        /\ ( last.outcome = "scanning" /\ last'.outcome = "scanning" )
           => disk' = disk
        /\ ( last.outcome = "scanning" /\ last'.outcome # "scanning" )
           => /\ last'.outcome = "ok"
              /\ last'.result = last.result
              /\ last.j > Len(last.paths)
              /\ \A d \in DOMAIN disk :
                    /\ DOMAIN disk'[d] =
                          DOMAIN disk[d]
                          \cup (IF d = StoreOf(last) THEN {KeyOf(last)} ELSE {})
                    /\ \A k \in DOMAIN disk'[d] :
                          disk'[d][k] =
                             IF d = StoreOf(last) /\ k = KeyOf(last)
                             THEN [data |-> last'.result, time |-> now]
                             ELSE disk[d][k] ]_vars

C19_Witness ==
    /\ last.op = "scan_directories"
    /\ last.outcome = "ok"
    /\ ~last.hit
    /\ last.stale
    /\ last.epoch < fsEpoch
    /\ Len(last.validated) = 2
    /\ Len(last.result) > 2
    /\ Get(disk[StoreOf(last)], KeyOf(last)).data = last.result

(***************************************************************************)
(* C20.  Two calls of _create_cache_key give the same key if and only if   *)
(* their root lists have the same set of members and their filter names    *)
(* are equal.                                                              *)
(***************************************************************************)
RootSet(paths) == {paths[i] : i \in DOMAIN paths}

C20_SameKeyIffSameRootSetAndFilter ==
    ( last.op = "_create_cache_key" /\ calls = 2 )
    => ( last.key = last.prev_key
         <=> ( /\ RootSet(last.paths) = RootSet(last.prev_paths)
               /\ last.filter_name = last.prev_filter_name ) )

(***************************************************************************)
(* C21.  A scan_directories call that follows, on the same roots and       *)
(* within the TTL, a call made with another filter function or by a        *)
(* scanner with another set of video extensions returns the directories    *)
(* that match its own predicate.                                           *)
(***************************************************************************)
OtherPredicateBefore ==
    /\ last.prev_scanner # 0
    /\ \/ last.filter_func # last.prev_filter_func
       \/ scanners[last.scanner].video_extensions # last.prev_extensions

C21_OwnPredicateServed ==
    ( /\ last.op = "scan_directories"
      /\ last.outcome = "ok"
      /\ calls = 2
      /\ OtherPredicateBefore )
    => last.result = Traverse(last, fs, last.paths).result

(***************************************************************************)
(* C22.  A scan_directories traversal that passed over a root (invalid, or *)
(* failing when listed) stores the list it found under the key of the call *)
(* with the time of the call; while that entry is within the TTL and has   *)
(* not been cleared, the next call with the same key returns that list,    *)
(* whatever has become of the roots.                                       *)
(***************************************************************************)
Entry(call) == Get(disk[StoreOf(call)], KeyOf(call))

C22_PartialResultCached ==
    [][ ( IsCallStep /\ last'.op = "scan_directories" /\ last'.outcome = "ok" )
        => /\ ( /\ ~last'.hit
                /\ \E i \in DOMAIN last'.validated :
                      ~listable(fs, last'.validated[i]) )
              => Get(disk'[StoreOf(last')], KeyOf(last'))
                    = [data |-> last'.result, time |-> now]
           /\ ( /\ last.op = "scan_directories"
                /\ last.outcome = "ok"
                /\ last.skipped # <<>>
                /\ StoreOf(last') = StoreOf(last)
                /\ KeyOf(last') = KeyOf(last)
                /\ Entry(last) # None
                /\ now - Entry(last).time < scanners[last'.scanner].cache_ttl )
              => /\ last'.hit
                 /\ last'.result = last.result
                 /\ disk' = disk ]_vars

\* The list of a traversal that found a root missing is returned when all
\* roots can be listed and hold more than that list.
C22_Witness ==
    /\ last.op = "scan_directories"
    /\ last.outcome = "ok"
    /\ last.hit
    /\ last.skipped # <<>>
    /\ \A i \in DOMAIN last.paths : listable(fs, last.paths[i])
    /\ last.limit = NoLimit
    /\ Len(last.result) < Len(Traverse(last, fs, last.paths).result)

(***************************************************************************)
(* C23.  When download_trailers_for_movie (download_trailers_for_tvshow)   *)
(* returns at least one path for a directory, MovieScanner.has_trailer     *)
(* (TVShowScanner.has_trailer with the "trailers" subdirectory) is true of *)
(* the directory afterwards; and a find_missing_trailers call that         *)
(* traverses the tree lists no directory that holds a file the downloader  *)
(* saved for it.                                                           *)
(***************************************************************************)
TrailerNames(media, name) ==
    { FileName(media, TrailerFilename(media, name, idx)) \o suffix :
         idx \in 1..MAX_TRAILERS_PER_MEDIA, suffix \in SavedSuffixes }

\* A file with a name the downloader gives is where the downloader puts it.
HoldsDownload(media, item) ==
    IF media = "movie"
    THEN \E f \in item.entries : ~f.isDir /\ f.name \in TrailerNames(media, item.name)
    ELSE \E sub \in item.entries :
            /\ sub.isDir
            /\ sub.name = TRAILERS_SUBDIR
            /\ \E f \in sub.entries :
                  ~f.isDir /\ f.name \in TrailerNames(media, item.name)

C23_DownloadedIsNotMissing ==
    [][ /\ ( /\ last'.op \in DownloadOps
             /\ Len(last'.result) >= 1 )
           => IF last'.op = "download_trailers_for_movie"
              THEN Movie_has_trailer(NodeAt(fs', last'.paths[1]))
              ELSE TV_has_trailer(TRAILERS_SUBDIR, NodeAt(fs', last'.paths[1]))
        /\ ( /\ IsCallStep
             /\ last'.op \in FindOps
             /\ last'.outcome = "ok"
             /\ ~last'.hit )
           => \A k \in DOMAIN last'.result :
                 ~HoldsDownload(IF last'.op = "Movie_find_missing_trailers"
                                THEN "movie" ELSE "tvshow",
                                NodeAt(fs, last'.result[k])) ]_vars

\* A movie directory that was listed as missing a trailer got one from the
\* downloader, the cache was cleared and the scan that followed left it out.
C23_Witness ==
    /\ last.op = "Movie_find_missing_trailers"
    /\ last.outcome = "ok"
    /\ ~last.hit
    /\ last.after_clear
    /\ \E k \in DOMAIN last.old :
          /\ HoldsDownload("movie", NodeAt(fs, last.old[k]))
          /\ \A n \in DOMAIN last.result : last.result[n] # last.old[k]

(***************************************************************************)
(* C24.  In a run of download_trailers_for_movie / _for_tvshow, an index   *)
(* whose URL is not empty and whose file <name>.mp4 is in the output       *)
(* directory has its path returned and is not handed to yt-dlp, and the    *)
(* file stays; when that is so for every URL of the run, the tree is left  *)
(* as it was.                                                              *)
(***************************************************************************)
\* The directory the files of `call` go to, if it is there.
OutputDirOf(tree, call) ==
    LET item == NodeAt(tree, call.paths[1])
    IN  IF Media(call) = "movie" THEN {item}
        ELSE {sub \in item.entries : sub.isDir /\ sub.name = TRAILERS_SUBDIR}

\* <name>.mp4 for the idx-th URL of `call` is in the tree.
FileThere(tree, call, idx) ==
    \E dir \in OutputDirOf(tree, call) : \E f \in dir.entries :
       /\ ~f.isDir
       /\ f.name = FileName(Media(call),
                            TrailerFilename(Media(call), call.paths[1][2], idx))
                      \o <<".", "m", "p", "4">>

Wanted(call) ==
    { idx \in 1..Len(call.urls) :
         idx <= MAX_TRAILERS_PER_MEDIA /\ call.urls[idx] # "" }

Successes(call) ==
    {n \in 1..call.max_retries : call.answers[n]}

FirstSuccess(call) ==
    CHOOSE n \in Successes(call) : \A m \in Successes(call) : n <= m

C25_RetryUntilSuccessOrExhausted ==
    last.op = "_make_request"
    => /\ IF Successes(last) # {}
          THEN /\ last.outcome = "returned"
               /\ last.response = FirstSuccess(last)
               /\ last.requests = FirstSuccess(last)
          ELSE /\ last.outcome = "raised"
               /\ last.error = last.max_retries
               /\ last.requests = last.max_retries
       /\ last.sleeps = last.requests - 1
       /\ last.outcome = "returned" => last.response \in Successes(last)

(***************************************************************************)
(* C26.  download_trailers_for_movies / _for_tvshows call the downloader   *)
(* exactly for the entries whose URL list is not empty; an entry with an   *)
(* empty URL list gets the empty list; the dict returned has the keys of   *)
(* the dict given.                                                         *)
(***************************************************************************)
BatchOps == {"download_trailers_for_movies", "download_trailers_for_tvshows"}

Keys(items) == {items[n][1] : n \in DOMAIN items}

C26_EmptyUrlListsPassThrough ==
    last.op \in BatchOps
    => /\ Keys(last.download_results) = Keys(last.trailer_results)
       /\ Len(last.download_results) = Len(last.trailer_results)
       /\ \A n \in DOMAIN last.trailer_results :
             LET media_path == last.trailer_results[n][1]
                 called == \E k \in DOMAIN last.invoked : last.invoked[k] = media_path
             IN  /\ called <=> last.trailer_results[n][2] # <<>>
                 /\ ~called
                    => \E k \in DOMAIN last.download_results :
                          last.download_results[k] = <<media_path, <<>>>>

C26_Witness ==
    /\ last.op = "download_trailers_for_movies"
    /\ Len(last.trailer_results) = 2
    /\ last.trailer_results[1][2] = <<>>
    /\ last.trailer_results[2][2] # <<>>
    /\ last.invoked = <<last.trailer_results[2][1]>>
    /\ last.download_results[1][2] = <<>>
    /\ last.download_results[2][2] # <<>>

(***************************************************************************)
(* C27.  A command line run enters the download phase only if the TMDB     *)
(* search found a URL for some item; when items miss their trailer and no  *)
(* URL was found for any of them, "No trailers found to download." is      *)
(* reported and the download phase is not entered.                         *)
(***************************************************************************)
UrlFound(call) ==
    \/ \E n \in DOMAIN call.movie_results : call.movie_results[n][2] # <<>>
    \/ \E n \in DOMAIN call.tvshow_results : call.tvshow_results[n][2] # <<>>

C27_DownloadOnlyIfUrlFound ==
    last.op = "_main"
    => /\ last.download_phase => UrlFound(last)
       /\ ( /\ \/ last.movies_without_trailers # <<>>
               \/ last.tvshows_without_trailers # <<>>
            /\ ~UrlFound(last) )
          => /\ "No trailers found to download." \in last.reported
             /\ ~last.download_phase

(***************************************************************************)
(* C28.  Whenever USE_SMB_MOUNT is set, use_smb_mount equals the value of  *)
(* the variable, and the media paths carry the SMB mount point as prefix   *)
(* exactly when that value is true, whatever use_smb was passed to the     *)
(* constructor.                                                            *)
(***************************************************************************)
\* The value of USE_SMB_MOUNT as the code reads it.
EnvSaysSmb(call) == Lower(call.env.USE_SMB_MOUNT) = <<"t", "r", "u", "e">>

Prefixed(call) ==
    call.movies_paths = _apply_smb_prefix(call.smb_mount_point, call.movies_paths_raw)

C28_EnvOverridesConstructor ==
    ( /\ last.op = "YoutubeTrailerScraper"
      /\ last.env.USE_SMB_MOUNT # NotSet )
    => /\ last.use_smb_mount = EnvSaysSmb(last)
       /\ last.smb_mount_point # <<>>
          => /\ EnvSaysSmb(last) => Prefixed(last)
             /\ ~EnvSaysSmb(last) => last.movies_paths = last.movies_paths_raw

(***************************************************************************)
(* C29.  Every rename that fix_trailer_extensions.scan_directories plans   *)
(* takes a trailer file without the .mp4 extension, in a movie directory,  *)
(* to the same name with ".mp4" added at its end, in the same directory.   *)
(***************************************************************************)
FixRun(call) == call.op = "fix_trailer_extensions"

\* The directory at base_path / name of the tree (one per name).
FolderOf(tree, path) ==
    LET base == tree[path[1]].children
    IN  base[CHOOSE i \in 1..Len(base) : base[i].name = path[2]]

C29_RenameAppendsMp4 ==
    FixRun(last)
    => \A pair \in last.files_to_rename :
          LET old_path == pair[1]
              new_path == pair[2]
              folder == FolderOf(last.before, old_path)
          IN  /\ is_movie_directory(folder)
              /\ File(old_path[3]) \in folder.entries
              /\ Contains(Lower(old_path[3]), TRAILER)
              /\ Lower(Suffix(old_path[3])) # MP4
              /\ new_path[1] = old_path[1] /\ new_path[2] = old_path[2]
              /\ new_path[3] = old_path[3] \o MP4

(***************************************************************************)
(* C30.  A run of fix_trailer_extensions without --dry-run loses no file:  *)
(* no rename target is the name of a file that was in the directory, no    *)
(* two renames have the same target, and every file that is not renamed is *)
(* still there afterwards, next to as many files as before.                *)
(***************************************************************************)
FilesOf(folder) == { n \in folder.entries : ~n.isDir }

C30_RenamesLoseNoFile ==
    ( FixRun(last) /\ ~last.dry_run )
    => /\ \A pair \in last.files_to_rename :
             LET folder == FolderOf(last.before, pair[1])
             IN  /\ \A n \in folder.entries : n.name # pair[2][3]
                 /\ \A other \in last.files_to_rename :
                       other[2] = pair[2] => other = pair
       /\ \A root \in DOMAIN fs :
             \A i \in 1..Len(fs[root].children) :
                LET was == last.before[root].children[i]
                    is == fs[root].children[i]
                    sources == { File(pair[1][3]) :
                                    pair \in { q \in last.files_to_rename :
                                                  /\ q[1][1] = root
                                                  /\ q[1][2] = was.name } }
                IN  /\ FilesOf(was) \ sources \subseteq FilesOf(is)
                    /\ Cardinality(FilesOf(is)) = Cardinality(FilesOf(was))

====
